---- MODULE Spec2Model ----
(***************************************************************************)
(* A model of the Straeto schedule store and its two queries,              *)
(* BusSchedule.arrivals and BusSchedule.predicted_arrival                  *)
(* (src/src/straeto/straeto.py).                                           *)
(* Spec is the store with one query made on it; CacheSpec is the live      *)
(* fleet cache of class Bus under concurrent callers (CacheLiveSpec adds   *)
(* fairness); IngestSpec is the ingestion of one trip's halts in any       *)
(* order; LookupSpec is one lookup (service activity, route number,        *)
(* progress ratio of a bus) on loaded tables; StopSpec is the making of    *)
(* stops and the search for the closest ones.                              *)
(*                                                                         *)
(* Times of day are (h, m, s) tuples, compared as Python compares tuples.  *)
(* Instants (datetime) are whole seconds counted from 00:00:00 of the      *)
(* schedule's date; an estimated arrival is a rational number of seconds   *)
(* kept as <<numerator, denominator>>.  Locations are points of a line,    *)
(* in metres, and distance is the distance on that line.                   *)
(***************************************************************************)
EXTENDS Integers, Sequences, FiniteSets, TLC

VARIABLES
    \* the schedule store and the query made on it
    all_stops, calendar, all_routes, trips, sched, pc, op, args, ret,
    \* the live-fleet cache: Bus._all_buses, Bus._info_timestamp, Bus._lock,
    \* the callers' positions, the clock, the status file and what was fetched
    all_buses, info_timestamp, lock, caller, calls, clock, ticks, status_file,
    last_fetch,
    \* a trip under ingestion: the rows of stop_times.txt not yet read, the
    \* rows of the file, and the BusTrip being built
    rows_left, rows_all, new_trip, load_pc, probe,
    \* BusStop._all_stops' keys in insertion order and BusStop._all_stops_by_name,
    \* while stops are being made
    stop_keys, all_stops_by_name

scheduleVars == <<all_stops, calendar, all_routes, trips, sched, pc, op, args, ret>>

cacheVars == <<info_timestamp, lock, caller, calls, clock, ticks, status_file, last_fetch>>

ingestVars == <<rows_left, rows_all, new_trip, load_pc, probe, stop_keys, all_stops_by_name>>

vars == <<scheduleVars, all_buses, cacheVars, ingestVars>>

\* Bounds of the model
MaxTrips == 2
MaxBuses == 2
MaxN == 2
MaxCallers == 2
MaxCalls == 2
MaxTicks == 2
MaxHalts == 3

\* ------------------------------------------------------------------------
\* Values
\* ------------------------------------------------------------------------

None == "None"
NoTime == <<>>
NoHalts == <<0, 0, 0>>
SecondsPerDay == 24 * 3600
EmptyMap == [k \in {} |-> 0]

_DEFAULT_AREA_PRIORITY == <<"ST", "SU", "VL", "SN", "NO", "RY", "AF">>

\* Python's ordering of (h, m, s) tuples
HmsLess(a, b) ==
    \/ a[1] < b[1]
    \/ a[1] = b[1] /\ a[2] < b[2]
    \/ a[1] = b[1] /\ a[2] = b[2] /\ a[3] < b[3]

HmsLeq(a, b) == a = b \/ HmsLess(a, b)

\* time(h, m, s) raises ValueError unless 0 <= h <= 23, 0 <= m, s <= 59
TimeRaises(hms) ==
    ~ (hms[1] \in 0..23 /\ hms[2] \in 0..59 /\ hms[3] \in 0..59)

\* datetime.combine(today, time(*hms)) as seconds from today's midnight
Combine(hms) == hms[1] * 3600 + hms[2] * 60 + hms[3]

\* distance(loc1, loc2), in metres on the line
distance(loc1, loc2) == IF loc1 >= loc2 THEN loc1 - loc2 ELSE loc2 - loc1

\* round_to_hh_mm that rounds to the nearest minute whatever round_down is
round_to_hh_mm_nearest(ts, round_down) ==
    LET tod == ts % SecondsPerDay
        h == tod \div 3600
        m == (tod % 3600) \div 60
        s == tod % 60
    IN  IF s > 30 \/ (s = 30 /\ m % 2 = 1)
        THEN IF m + 1 >= 60
             THEN IF h + 1 >= 24 THEN <<h + 1 - 24, m + 1 - 60, 0>>
                  ELSE <<h + 1, m + 1 - 60, 0>>
             ELSE <<h, m + 1, 0>>
        ELSE <<h, m, s>>

\* round_to_hh_mm(ts, round_down): ts is an instant in whole seconds
round_to_hh_mm(ts, round_down) ==
    LET tod == ts % SecondsPerDay
        h == tod \div 3600
        m == (tod % 3600) \div 60
        s == tod % 60
    IN  IF round_down THEN <<h, m, 0>>
        ELSE IF s > 30 \/ (s = 30 /\ m % 2 = 1)
             THEN IF m + 1 >= 60
                  THEN IF h + 1 >= 24 THEN <<h + 1 - 24, m + 1 - 60, 0>>
                       ELSE <<h + 1, m + 1 - 60, 0>>
                  ELSE <<h, m + 1, 0>>
             ELSE <<h, m, s>>

\* ------------------------------------------------------------------------
\* BusStop
\* ------------------------------------------------------------------------

\* BusStop.lookup(stop_id): the stop (named by its key in the table), or None
BusStop_lookup(stops, stop_id) ==
    IF stop_id \in DOMAIN stops THEN stop_id ELSE None

\* ------------------------------------------------------------------------
\* BusTrip
\* ------------------------------------------------------------------------

\* BusTrip.__init__
BusTrip(trip_id, route_id, service, direction) ==
    [trip_id |-> trip_id, route_id |-> route_id, service |-> service,
     direction |-> direction,
     halts |-> <<>>, stops |-> {}, consecutive_stops |-> {},
     sorted_halts |-> <<>>, initialized |-> FALSE,
     first_stop |-> None, last_stop_seq |-> 0, last_stop |-> None,
     start_time |-> NoTime, end_time |-> NoTime]

\* self._halts[arrival].append(halt): a dict of lists, in key insertion order
HaltsAppend(halts, arrival, halt) ==
    IF \E i \in 1..Len(halts) : halts[i][1] = arrival
    THEN [i \in 1..Len(halts) |->
            IF halts[i][1] = arrival
            THEN <<arrival, Append(halts[i][2], halt)>> ELSE halts[i]]
    ELSE Append(halts, <<arrival, <<halt>> >>)

\* BusTrip._add_halt; halt.stop is BusStop.lookup(halt.stop_id)
add_halt(stops, trip, halt) ==
    LET arrival == halt.arrival_time
        departure == halt.arrival_time
        stop == BusStop_lookup(stops, halt.stop_id)
        stop_known == stop # None
        t1 == [trip EXCEPT !.halts = HaltsAppend(trip.halts, arrival, halt)]
        t2 == IF halt.stop_seq = 1
              THEN [t1 EXCEPT !.first_stop = stop]
              ELSE IF halt.stop_seq > t1.last_stop_seq
                   THEN [t1 EXCEPT !.last_stop = stop,
                                   !.last_stop_seq = halt.stop_seq]
                   ELSE t1
        t3 == IF stop_known
              THEN [t2 EXCEPT !.stops = t2.stops \cup {halt.stop_id}] ELSE t2
        t4 == IF t3.start_time = NoTime \/ HmsLess(arrival, t3.start_time)
              THEN [t3 EXCEPT !.start_time = arrival] ELSE t3
    IN  IF t4.end_time = NoTime \/ HmsLess(t4.end_time, departure)
        THEN [t4 EXCEPT !.end_time = departure] ELSE t4

\* The (hms, halt) pairs of self._halts.items(), lists flattened
RECURSIVE FlattenHalts(_)
FlattenHalts(halts) ==
    IF halts = <<>> THEN <<>>
    ELSE LET e == Head(halts)
         IN  [i \in 1..Len(e[2]) |-> <<e[1], e[2][i]>>] \o FlattenHalts(Tail(halts))

\* list.sort(key=stop_seq): a stable sort
RECURSIVE InsertBySeq(_, _)
InsertBySeq(sorted, item) ==
    IF sorted = <<>> THEN <<item>>
    ELSE IF sorted[Len(sorted)][2].stop_seq <= item[2].stop_seq
         THEN Append(sorted, item)
         ELSE Append(InsertBySeq(SubSeq(sorted, 1, Len(sorted) - 1), item),
                     sorted[Len(sorted)])

RECURSIVE SortBySeq(_)
SortBySeq(h) ==
    IF h = <<>> THEN <<>>
    ELSE InsertBySeq(SortBySeq(SubSeq(h, 1, Len(h) - 1)), h[Len(h)])

\* BusTrip._initialize without the sort of line 330
BusTrip_initialize_unsorted(trip) ==
    LET h == FlattenHalts(trip.halts)
    IN  [trip EXCEPT
            !.sorted_halts = h,
            !.initialized = TRUE,
            !.consecutive_stops =
                trip.consecutive_stops \cup
                { <<h[ix][2].stop_id, h[ix + 1][2].stop_id>> : ix \in 1..(Len(h) - 1) }]

\* BusTrip._initialize
BusTrip_initialize(trip) ==
    LET h == SortBySeq(FlattenHalts(trip.halts))
    IN  [trip EXCEPT
            !.sorted_halts = h,
            !.initialized = TRUE,
            !.consecutive_stops =
                trip.consecutive_stops \cup
                { <<h[ix][2].stop_id, h[ix + 1][2].stop_id>> : ix \in 1..(Len(h) - 1) }]

\* BusTrip.stops_at
stops_at(trip, stop_id) == stop_id \in trip.stops

\* BusTrip.has_consecutive_stops
has_consecutive_stops(trip, stop1_id, stop2_id) ==
    IF stop1_id = "" THEN stops_at(trip, stop2_id)
    ELSE IF stop2_id = "" THEN stops_at(trip, stop1_id)
    ELSE <<stop1_id, stop2_id>> \in trip.consecutive_stops

\* BusTrip.following_halt: the indices, in sorted_halts, of the base halt,
\* the halt after it and the found halt; NoHalts for (None, None, None)
following_halt(trip, stop_id, base_stop_id) ==
    LET halts == trip.sorted_halts
        base == { i \in 1..Len(halts) : halts[i][2].stop_id = base_stop_id }
    IN  IF base = {} THEN NoHalts
        ELSE LET b == CHOOSE i \in base : \A j \in base : i <= j
                 found == { i \in (b + 1)..Len(halts) : halts[i][2].stop_id = stop_id }
             IN  IF found = {} THEN NoHalts
                 ELSE <<b, b + 1, CHOOSE i \in found : \A j \in found : i <= j>>

\* BusHalt.time_to raises ValueError: time(*hms) is given an hour above 23
time_to_raises(trip, i, j) ==
    /\ i # j
    /\ \/ TimeRaises(trip.sorted_halts[i][2].arrival_time)
       \/ TimeRaises(trip.sorted_halts[j][2].arrival_time)

\* BusHalt.time_to, between the halts at indices i and j of sorted_halts
time_to(trip, i, j) ==
    IF i = j THEN 0
    ELSE Combine(trip.sorted_halts[j][2].arrival_time)
         - Combine(trip.sorted_halts[i][2].arrival_time)

\* ------------------------------------------------------------------------
\* BusService, BusRoute
\* ------------------------------------------------------------------------

\* BusService.is_active_on_date: the service code is in the calendar's set
\* for the date (cal is BusCalendar.lookup(on_date))
is_active_on_date(service, cal) == service \in cal

\* The keys of route._services, in insertion order (BusRoute.add_service)
RECURSIVE services(_, _)
services(ts, route_id) ==
    IF ts = <<>> THEN <<>>
    ELSE LET rest == services(SubSeq(ts, 1, Len(ts) - 1), route_id)
             t == ts[Len(ts)]
         IN  IF t.route_id = route_id /\ ~ \E i \in 1..Len(rest) : rest[i] = t.service
             THEN Append(rest, t.service)
             ELSE rest

\* BusRoute.active_services
active_services(ts, route_id, cal) ==
    SelectSeq(services(ts, route_id), LAMBDA s : is_active_on_date(s, cal))

\* BusService.trips of one service of a route (BusService.add_trip)
service_trips(ts, route_id, service) ==
    SelectSeq(ts, LAMBDA t : t.route_id = route_id /\ t.service = service)

\* "for service in route.active_services(...): for trip in service.trips"
RECURSIVE TripsOfServices(_, _, _)
TripsOfServices(ts, route_id, svcs) ==
    IF svcs = <<>> THEN <<>>
    ELSE service_trips(ts, route_id, Head(svcs))
         \o TripsOfServices(ts, route_id, Tail(svcs))

ActiveTrips(ts, route_id, cal) ==
    TripsOfServices(ts, route_id, active_services(ts, route_id, cal))

\* lookup_number that goes on after a match and keeps the last one
RECURSIVE lookup_number_last_match(_, _, _)
lookup_number_last_match(routes, route_number, area_priority) ==
    IF area_priority = <<>> THEN None
    ELSE LET route_id == Head(area_priority) \o "." \o route_number
             later == lookup_number_last_match(routes, route_number, Tail(area_priority))
         IN  IF later # None THEN later
             ELSE IF \E i \in 1..Len(routes) : routes[i] = route_id
                  THEN route_id ELSE None

\* BusRoute.lookup_number: the first area of area_priority that has the number
RECURSIVE lookup_number(_, _, _)
lookup_number(routes, route_number, area_priority) ==
    IF area_priority = <<>> THEN None
    ELSE LET route_id == Head(area_priority) \o "." \o route_number
         IN  IF \E i \in 1..Len(routes) : routes[i] = route_id
             THEN route_id
             ELSE lookup_number(routes, route_number, Tail(area_priority))

\* BusRoute.make_id
make_id(routes, route_number, area_priority) ==
    lookup_number(routes, route_number, area_priority)

\* ------------------------------------------------------------------------
\* BusSchedule.__init__
\* ------------------------------------------------------------------------

\* The (route, direction, stop name, hms) appended for the halts of one trip;
\* the direction is the name of the trip's last stop
TripEntries(stops, trip) ==
    LET h == trip.sorted_halts
        known == SelectSeq(h, LAMBDA e : e[2].stop_id \in DOMAIN stops)
    IN  [i \in 1..Len(known) |->
            <<trip.route_id, stops[trip.last_stop].name,
              stops[known[i][2].stop_id].name, known[i][1]>>]

RECURSIVE TripsEntries(_, _)
TripsEntries(stops, ts) ==
    IF ts = <<>> THEN <<>>
    ELSE TripEntries(stops, Head(ts)) \o TripsEntries(stops, Tail(ts))

RECURSIVE RoutesEntries(_, _, _, _)
RoutesEntries(stops, routes, ts, cal) ==
    IF routes = <<>> THEN <<>>
    ELSE TripsEntries(stops, ActiveTrips(ts, Head(routes), cal))
         \o RoutesEntries(stops, Tail(routes), ts, cal)

\* trip.last_stop asserts that a last stop was recorded
BusSchedule_raises(routes, ts, cal) ==
    \E i \in 1..Len(routes) :
        LET a == ActiveTrips(ts, routes[i], cal)
        IN  \E j \in 1..Len(a) : a[j].sorted_halts # <<>> /\ a[j].last_stop = None

RECURSIVE TimesOf(_, _, _, _)
TimesOf(e, r, d, nm) ==
    IF e = <<>> THEN <<>>
    ELSE LET x == Head(e)
         IN  IF x[1] = r /\ x[2] = d /\ x[3] = nm
             THEN <<x[4]>> \o TimesOf(Tail(e), r, d, nm)
             ELSE TimesOf(Tail(e), r, d, nm)

\* self._sched: route id -> direction -> stop name -> list of hms
BusSchedule(stops, routes, ts, cal) ==
    LET e == RoutesEntries(stops, routes, ts, cal)
        ix == 1..Len(e)
    IN  [r \in { e[i][1] : i \in ix } |->
          [d \in { e[i][2] : i \in { j \in ix : e[j][1] = r } } |->
            [nm \in { e[i][3] : i \in { j \in ix : e[j][1] = r /\ e[j][2] = d } } |->
                TimesOf(e, r, d, nm)]]]

\* ------------------------------------------------------------------------
\* BusSchedule.arrivals
\* ------------------------------------------------------------------------

\* sorted(list of hms)
RECURSIVE InsertHms(_, _)
InsertHms(sorted, x) ==
    IF sorted = <<>> THEN <<x>>
    ELSE IF HmsLeq(sorted[Len(sorted)], x) THEN Append(sorted, x)
         ELSE Append(InsertHms(SubSeq(sorted, 1, Len(sorted) - 1), x),
                     sorted[Len(sorted)])

RECURSIVE sorted(_)
sorted(l) ==
    IF l = <<>> THEN <<>>
    ELSE InsertHms(sorted(SubSeq(l, 1, Len(l) - 1)), l[Len(l)])

\* l[:n] for n >= 0
Slice(l, n) == SubSeq(l, 1, IF n < Len(l) THEN n ELSE Len(l))

\* arrivals without the test hms >= after_hms
arrivals_unfiltered(sch, stops, routes, route_number, stop_id, n, after_hms, area_priority) ==
    LET route_id == make_id(routes, route_number, area_priority)
        name == stops[stop_id].name
    IN  IF route_id = None THEN [h |-> EmptyMap, arrives |-> FALSE]
        ELSE LET s == IF route_id \in DOMAIN sch THEN sch[route_id] ELSE EmptyMap
                 hlist(d) == SelectSeq(s[d][name], LAMBDA hms : TRUE)
                 dirs == { d \in DOMAIN s :
                            /\ name \in DOMAIN s[d]
                            /\ name # d
                            /\ hlist(d) # <<>> }
             IN  [h |-> [d \in dirs |-> Slice(sorted(hlist(d)), n)],
                  arrives |-> \E d \in DOMAIN s : name \in DOMAIN s[d]]

\* arrivals with the test hms > after_hms
arrivals_strictly_after(sch, stops, routes, route_number, stop_id, n, after_hms, area_priority) ==
    LET route_id == make_id(routes, route_number, area_priority)
        name == stops[stop_id].name
    IN  IF route_id = None THEN [h |-> EmptyMap, arrives |-> FALSE]
        ELSE LET s == IF route_id \in DOMAIN sch THEN sch[route_id] ELSE EmptyMap
                 hlist(d) == SelectSeq(s[d][name], LAMBDA hms : HmsLess(after_hms, hms))
                 dirs == { d \in DOMAIN s :
                            /\ name \in DOMAIN s[d]
                            /\ name # d
                            /\ hlist(d) # <<>> }
             IN  [h |-> [d \in dirs |-> Slice(sorted(hlist(d)), n)],
                  arrives |-> \E d \in DOMAIN s : name \in DOMAIN s[d]]

\* arrivals whose flag is set only where a later halt is found
arrivals_flag_from_list(sch, stops, routes, route_number, stop_id, n, after_hms, area_priority) ==
    LET route_id == make_id(routes, route_number, area_priority)
        name == stops[stop_id].name
    IN  IF route_id = None THEN [h |-> EmptyMap, arrives |-> FALSE]
        ELSE LET s == IF route_id \in DOMAIN sch THEN sch[route_id] ELSE EmptyMap
                 hlist(d) == SelectSeq(s[d][name], LAMBDA hms : HmsLeq(after_hms, hms))
                 dirs == { d \in DOMAIN s :
                            /\ name \in DOMAIN s[d]
                            /\ name # d
                            /\ hlist(d) # <<>> }
             IN  [h |-> [d \in dirs |-> Slice(sorted(hlist(d)), n)],
                  arrives |-> dirs # {}]

\* BusSchedule.arrivals on the schedule sch
arrivals(sch, stops, routes, route_number, stop_id, n, after_hms, area_priority) ==
    LET route_id == make_id(routes, route_number, area_priority)
        name == stops[stop_id].name
    IN  IF route_id = None THEN [h |-> EmptyMap, arrives |-> FALSE]
        ELSE LET s == IF route_id \in DOMAIN sch THEN sch[route_id] ELSE EmptyMap
                 hlist(d) == SelectSeq(s[d][name], LAMBDA hms : HmsLeq(after_hms, hms))
                 dirs == { d \in DOMAIN s :
                            /\ name \in DOMAIN s[d]
                            /\ name # d
                            /\ hlist(d) # <<>> }
             IN  [h |-> [d \in dirs |-> Slice(sorted(hlist(d)), n)],
                  arrives |-> \E d \in DOMAIN s : name \in DOMAIN s[d]]

\* ------------------------------------------------------------------------
\* BusSchedule.predicted_arrival
\* ------------------------------------------------------------------------

\* (now.hour, now.minute, now.second) of an instant
HmsOfInstant(t) ==
    LET tod == t % SecondsPerDay
    IN  <<tod \div 3600, (tod % 3600) \div 60, tod % 60>>

\* gap.diff: seconds from hms1 to hms2, hours of 24 and more being tomorrow's
diff(hms1, hms2) ==
    LET t1 == IF hms1[1] >= 24
              THEN SecondsPerDay + Combine(<<hms1[1] - 24, hms1[2], hms1[3]>>)
              ELSE Combine(hms1)
        t2 == IF hms2[1] >= 24
              THEN SecondsPerDay + Combine(<<hms2[1] - 24, hms2[2], hms2[3]>>)
              ELSE Combine(hms2)
    IN  t2 - t1

\* gap with a finished trip counted as underway
gap_finished_is_zero(trip, after_hms) ==
    IF HmsLess(after_hms, trip.start_time) THEN -1 ELSE 0

\* gap without its first branch: a trip that has not started counts as underway
gap_ignores_start(trip, after_hms) ==
    IF HmsLess(trip.end_time, after_hms) THEN diff(trip.end_time, after_hms)
    ELSE 0

\* predicted_arrival.gap
gap(trip, after_hms) ==
    IF HmsLess(after_hms, trip.start_time) THEN -1
    ELSE IF HmsLess(trip.end_time, after_hms) THEN diff(trip.end_time, after_hms)
    ELSE 0

\* The loop that fills closest_gap and closest_trip; dirs is the insertion
\* order of the keys of closest_trip
RECURSIVE ClosestLoop(_, _, _, _)
ClosestLoop(ts, stop_id, after_hms, acc) ==
    IF ts = <<>> THEN acc
    ELSE LET trip == Head(ts)
             g == gap(trip, after_hms)
             d == trip.direction
             take == /\ stops_at(trip, stop_id)
                     /\ g >= 0
                     /\ (d \notin DOMAIN acc.closest_gap \/ g < acc.closest_gap[d])
             acc1 == IF take
                     THEN [dirs |-> IF d \in DOMAIN acc.closest_gap
                                    THEN acc.dirs ELSE Append(acc.dirs, d),
                           closest_gap |->
                               [k \in DOMAIN acc.closest_gap \cup {d} |->
                                   IF k = d THEN g ELSE acc.closest_gap[k]],
                           closest_trip |->
                               [k \in DOMAIN acc.closest_trip \cup {d} |->
                                   IF k = d THEN trip ELSE acc.closest_trip[k]]]
                     ELSE acc
         IN  ClosestLoop(Tail(ts), stop_id, after_hms, acc1)

Closest(ts, route_id, cal, stop_id, after_hms) ==
    ClosestLoop(ActiveTrips(ts, route_id, cal), stop_id, after_hms,
                [dirs |-> <<>>, closest_gap |-> EmptyMap, closest_trip |-> EmptyMap])

\* Bus.buses_on_route: the buses of the map that are on the route
buses_on_route(buses, route_id) ==
    SelectSeq(buses, LAMBDA b : b.route_id = route_id)

RECURSIVE GCD(_, _)
GCD(a, b) == IF b = 0 THEN a ELSE GCD(b, a % b)

\* d_ratio without the min of line 1384
d_ratio_unclamped(stops, bus) ==
    LET bus_stop == BusStop_lookup(stops, bus.stop_id)
        next_stop == BusStop_lookup(stops, bus.next_stop_id)
        d_stops == IF bus_stop # None /\ next_stop # None
                   THEN distance(stops[bus_stop].location, stops[next_stop].location)
                   ELSE 0
        d_bus == IF next_stop # None
                 THEN distance(bus.location, stops[next_stop].location) ELSE 0
    IN  IF d_stops < 1 THEN <<0, 1>>
        ELSE <<d_bus \div GCD(d_bus, d_stops), d_stops \div GCD(d_bus, d_stops)>>

\* d_ratio, as <<numerator, denominator>> in lowest terms; the stops are less
\* than a metre (0.001 km) apart, or one of them is unknown: 0
d_ratio(stops, bus) ==
    LET bus_stop == BusStop_lookup(stops, bus.stop_id)
        next_stop == BusStop_lookup(stops, bus.next_stop_id)
        d_stops == IF bus_stop # None /\ next_stop # None
                   THEN distance(stops[bus_stop].location, stops[next_stop].location)
                   ELSE 0
        d_bus == IF next_stop # None
                 THEN distance(bus.location, stops[next_stop].location) ELSE 0
    IN  IF d_stops < 1 THEN <<0, 1>>
        ELSE IF d_bus >= d_stops THEN <<1, 1>>
        ELSE <<d_bus \div GCD(d_bus, d_stops), d_stops \div GCD(d_bus, d_stops)>>

\* estimated_arrival with d_ratio left out of the journey time
estimated_arrival_whole_leg(trip, fh, bus, ratio) ==
    <<bus.timestamp + time_to(trip, fh[1], fh[2]) + time_to(trip, fh[2], fh[3]), 1>>

\* bus.timestamp + timedelta(seconds=journey_time), as a rational
estimated_arrival(trip, fh, bus, ratio) ==
    <<(bus.timestamp + time_to(trip, fh[2], fh[3])) * ratio[2]
        + time_to(trip, fh[1], fh[2]) * ratio[1],
      ratio[2]>>

\* e1 < e2 for rationals with positive denominators
EstLess(e1, e2) == e1[1] * e2[2] < e2[1] * e1[2]

\* The instant's whole seconds (ts.hour, ts.minute, ts.second ignore the rest)
EstSeconds(e) == e[1] \div e[2]

\* TripStep without the test "estimated_arrival < now"
TripStep_keeps_past(stops, stop_id, bus, trip, now, acc) ==
    IF acc.raised THEN acc
    ELSE IF ~ has_consecutive_stops(trip, bus.stop_id, bus.next_stop_id) THEN acc
    ELSE LET fh == following_halt(trip, stop_id, bus.stop_id)
         IN  IF fh = NoHalts THEN acc
             ELSE IF time_to_raises(trip, fh[1], fh[2]) \/ time_to_raises(trip, fh[2], fh[3])
                  THEN [acc EXCEPT !.raised = TRUE]
             ELSE LET est == estimated_arrival(trip, fh, bus, d_ratio(stops, bus))
                  IN  IF trip.last_stop = None THEN [acc EXCEPT !.raised = TRUE]
                      ELSE LET direction == stops[trip.last_stop].name
                           IN  IF direction \notin DOMAIN acc.result
                                  \/ EstLess(est, acc.result[direction])
                               THEN [acc EXCEPT !.result =
                                        [k \in DOMAIN acc.result \cup {direction} |->
                                            IF k = direction THEN est ELSE acc.result[k]]]
                               ELSE acc

\* The body of "for trip in trips" for one bus and one candidate trip;
\* acc is [raised, result], result being the dict direction -> datetime
TripStep(stops, stop_id, bus, trip, now, acc) ==
    IF acc.raised THEN acc
    ELSE IF ~ has_consecutive_stops(trip, bus.stop_id, bus.next_stop_id) THEN acc
    ELSE LET fh == following_halt(trip, stop_id, bus.stop_id)
         IN  IF fh = NoHalts THEN acc
             ELSE IF time_to_raises(trip, fh[1], fh[2]) \/ time_to_raises(trip, fh[2], fh[3])
                  THEN [acc EXCEPT !.raised = TRUE]
             ELSE LET est == estimated_arrival(trip, fh, bus, d_ratio(stops, bus))
                  IN  IF EstLess(est, <<now, 1>>) THEN acc
                      ELSE IF trip.last_stop = None THEN [acc EXCEPT !.raised = TRUE]
                      ELSE LET direction == stops[trip.last_stop].name
                           IN  IF direction \notin DOMAIN acc.result
                                  \/ EstLess(est, acc.result[direction])
                               THEN [acc EXCEPT !.result =
                                        [k \in DOMAIN acc.result \cup {direction} |->
                                            IF k = direction THEN est ELSE acc.result[k]]]
                               ELSE acc

RECURSIVE TripsLoop(_, _, _, _, _, _)
TripsLoop(stops, stop_id, bus, cand, now, acc) ==
    IF cand = <<>> THEN acc
    ELSE TripsLoop(stops, stop_id, bus, Tail(cand), now,
                   TripStep(stops, stop_id, bus, Head(cand), now, acc))

RECURSIVE BusesLoop(_, _, _, _, _, _)
BusesLoop(stops, stop_id, buses, cand, now, acc) ==
    IF buses = <<>> THEN acc
    ELSE BusesLoop(stops, stop_id, Tail(buses), cand, now,
                   TripsLoop(stops, stop_id, Head(buses), cand, now, acc))

\* predicted_arrival, given the bus map that Bus.buses_on_route reads.
\* raised: the call ended in an exception; none: it returned None;
\* val: the dict it returned; result: its local dict before rounding;
\* closest_trip: its local dict direction -> trip, as trip ids
predicted_arrival(stops, routes, ts, cal, buses, route_number, stop_id, now, area_priority) ==
    LET route_id == make_id(routes, route_number, area_priority)
        nothing == [raised |-> FALSE, none |-> TRUE, val |-> EmptyMap,
                    result |-> EmptyMap, closest_trip |-> EmptyMap]
    IN  IF route_id = None THEN nothing
        ELSE LET c == Closest(ts, route_id, cal, stop_id, HmsOfInstant(now))
                 ids == [d \in DOMAIN c.closest_trip |-> c.closest_trip[d].trip_id]
             IN  IF c.dirs = <<>> THEN nothing
                 ELSE LET cand == [i \in 1..Len(c.dirs) |-> c.closest_trip[c.dirs[i]]]
                          r == BusesLoop(stops, stop_id, buses_on_route(buses, route_id),
                                         cand, now, [raised |-> FALSE, result |-> EmptyMap])
                      IN  IF r.raised
                          THEN [raised |-> TRUE, none |-> FALSE, val |-> EmptyMap,
                                result |-> EmptyMap, closest_trip |-> ids]
                          ELSE IF DOMAIN r.result = {}
                          THEN [nothing EXCEPT !.closest_trip = ids]
                          ELSE [raised |-> FALSE, none |-> FALSE,
                                val |-> [d \in DOMAIN r.result |->
                                           <<round_to_hh_mm(EstSeconds(r.result[d]), TRUE)>>],
                                result |-> r.result, closest_trip |-> ids]

\* predicted_arrival reaches Bus.buses_on_route, which refreshes the bus map
ReachesBuses(routes, ts, cal, route_number, stop_id, now, area_priority) ==
    LET route_id == make_id(routes, route_number, area_priority)
    IN  /\ route_id # None
        /\ Closest(ts, route_id, cal, stop_id, HmsOfInstant(now)).dirs # <<>>

\* ------------------------------------------------------------------------
\* The schedule data and live data the queries are run on
\* ------------------------------------------------------------------------

\* stops.txt: two stops bear the name "Cc"
StopTable ==
    [id \in {"A", "B", "C", "C2", "D"} |->
        CASE id = "A"  -> [name |-> "Aa", location |-> 0]
          [] id = "B"  -> [name |-> "Bb", location |-> 1000]
          [] id = "C"  -> [name |-> "Cc", location |-> 2000]
          [] id = "C2" -> [name |-> "Cc", location |-> 2000]
          [] id = "D"  -> [name |-> "Dd", location |-> 3000]]

\* calendar_dates.txt: the service codes of the schedule's date
CalendarToday == {"s1", "s3"}

\* An hh:mm:ss of stop_times.txt; the hour is not reduced modulo 24
to_hms(secs) == <<secs \div 3600, (secs % 3600) \div 60, secs % 60>>

\* trips.txt and stop_times.txt: the trip visits stop_ids in this order, the
\* first at start, each next one step seconds later
TripRow(trip_id, route_id, service, direction, stop_ids, start, step) ==
    [trip_id |-> trip_id, route_id |-> route_id, service |-> service,
     direction |-> direction,
     rows |-> [i \in 1..Len(stop_ids) |->
                 [trip_id |-> trip_id, stop_id |-> stop_ids[i], stop_seq |-> i,
                  arrival_time |-> to_hms(Combine(start) + (i - 1) * step)]]]

TripPool ==
    << TripRow("t1", "ST.3", "s1", "0", <<"A", "B", "C", "D">>, <<8, 0, 0>>, 600),
       TripRow("t2", "ST.3", "s1", "0", <<"A", "B", "C">>, <<8, 0, 0>>, 600),
       TripRow("t3", "ST.3", "s1", "1", <<"D", "C", "B", "A">>, <<8, 0, 0>>, 600),
       TripRow("t4", "ST.3", "s1", "0", <<"A", "B", "C", "D">>, <<23, 50, 0>>, 600),
       TripRow("t5", "ST.3", "s2", "0", <<"A", "B", "C", "D">>, <<7, 0, 0>>, 600),
       TripRow("t6", "SU.3", "s1", "0", <<"A", "B", "C", "D">>, <<8, 0, 0>>, 600),
       TripRow("t7", "ST.3", "s1", "0", <<"A", "B", "C2", "D">>, <<8, 0, 0>>, 600),
       TripRow("t8", "ST.3", "s3", "0", <<"A", "B", "A", "C", "D">>, <<7, 0, 0>>, 600) >>

\* BusHalt.__init__ for each row of the trip, then BusTrip._initialize
RECURSIVE AddHalts(_, _, _)
AddHalts(stops, trip, rows) ==
    IF rows = <<>> THEN trip
    ELSE AddHalts(stops, add_halt(stops, trip, Head(rows)), Tail(rows))

LoadTrip(stops, row) ==
    BusTrip_initialize(
        AddHalts(stops, BusTrip(row.trip_id, row.route_id, row.service, row.direction),
                 row.rows))

\* The keys of BusRoute._all_routes, in insertion order
RECURSIVE RouteIds(_)
RouteIds(ts) ==
    IF ts = <<>> THEN <<>>
    ELSE LET rest == RouteIds(SubSeq(ts, 1, Len(ts) - 1))
             r == ts[Len(ts)].route_id
         IN  IF \E i \in 1..Len(rest) : rest[i] = r THEN rest ELSE Append(rest, r)

\* The loaded files: between one and MaxTrips different trips of the pool
TripChoices ==
    { c \in UNION { [1..k -> 1..Len(TripPool)] : k \in 1..MaxTrips } :
        \A i, j \in DOMAIN c : i # j => c[i] # c[j] }

\* The vehicle records of the live feed
BusRow(route_id, stop_id, next_stop_id, location, timestamp) ==
    [route_id |-> route_id, stop_id |-> stop_id, next_stop_id |-> next_stop_id,
     location |-> location, timestamp |-> Combine(timestamp)]

BusPool ==
    << BusRow("ST.3", "A", "B", 500, <<8, 5, 0>>),
       BusRow("ST.3", "B", "C", 2000, <<8, 14, 50>>),
       BusRow("ST.3", "A", "B", 0, <<23, 55, 0>>),
       BusRow("ST.3", "D", "C", 2500, <<8, 5, 0>>),
       BusRow("SU.3", "A", "B", 500, <<8, 5, 0>>),
       BusRow("ST.3", "A", "B", 250, <<7, 0, 0>>),
       BusRow("ST.3", "A", "C", 1000, <<8, 5, 0>>) >>

\* The feeds: at most MaxBuses records of the pool
Snapshots ==
    { [i \in DOMAIN c |-> BusPool[c[i]]] :
        c \in { c \in UNION { [1..k -> 1..Len(BusPool)] : k \in 0..MaxBuses } :
                  \A i, j \in DOMAIN c : i < j => c[i] < c[j] } }

RouteNumbers == {"3", "9"}
QueryStops == {"A", "C", "D"}
AfterTimes == { <<0, 0, 0>>, <<7, 10, 0>>, <<8, 0, 0>>, <<8, 15, 0>>, <<9, 0, 0>> }
NowTimes == { Combine(<<7, 30, 0>>), Combine(<<8, 5, 0>>), Combine(<<8, 14, 30>>),
              Combine(<<8, 45, 0>>), Combine(<<23, 55, 0>>) }

\* ------------------------------------------------------------------------
\* The state machine
\* ------------------------------------------------------------------------

NoArgs == [route_number |-> "", stop |-> "", n |-> 0, after_hms |-> NoTime, now |-> 0]
NoRet == [h |-> EmptyMap, arrives |-> FALSE,
          raised |-> FALSE, none |-> FALSE, val |-> EmptyMap, result |-> EmptyMap,
          closest_trip |-> EmptyMap]

\* initialize() and BusSchedule() have run; no live data has been loaded
Init ==
    /\ all_stops = StopTable
    /\ calendar = CalendarToday
    /\ \E c \in TripChoices :
          trips = [i \in DOMAIN c |-> LoadTrip(StopTable, TripPool[c[i]])]
    /\ all_routes = RouteIds(trips)
    /\ ~ BusSchedule_raises(all_routes, trips, calendar)
    /\ sched = BusSchedule(all_stops, all_routes, trips, calendar)
    /\ all_buses = <<>>
    /\ pc = "idle"
    /\ op = "none"
    /\ args = NoArgs
    /\ ret = NoRet
    /\ info_timestamp = <<>> /\ lock = 0 /\ caller = <<>> /\ calls = 0
    /\ clock = 0 /\ ticks = 0 /\ status_file = <<>> /\ last_fetch = <<>>
    /\ rows_left = {} /\ rows_all = {} /\ new_trip = BusTrip("", "", "", "")
    /\ load_pc = "none" /\ probe = <<>> /\ stop_keys = <<>> /\ all_stops_by_name = EmptyMap

\* BusSchedule.arrivals(route_number, stop, n=n, after_hms=after_hms)
Arrivals(route_number, stop, n, after_hms) ==
    /\ pc = "idle"
    /\ pc' = "done"
    /\ op' = "arrivals"
    /\ args' = [NoArgs EXCEPT !.route_number = route_number, !.stop = stop,
                              !.n = n, !.after_hms = after_hms]
    /\ LET r == arrivals(sched, all_stops, all_routes, route_number, stop, n,
                         after_hms, _DEFAULT_AREA_PRIORITY)
       IN  ret' = [NoRet EXCEPT !.h = r.h, !.arrives = r.arrives]
    /\ UNCHANGED <<all_stops, calendar, all_routes, trips, sched, all_buses>>
    /\ UNCHANGED <<cacheVars, ingestVars>>

\* BusSchedule.predicted_arrival(route_number, stop) called at the instant
\* now; the refresh that Bus.buses_on_route starts loads the feed snapshot
PredictedArrival(route_number, stop, now, snapshot) ==
    /\ pc = "idle"
    /\ pc' = "done"
    /\ op' = "predicted_arrival"
    /\ args' = [NoArgs EXCEPT !.route_number = route_number, !.stop = stop, !.now = now]
    /\ all_buses' = IF ReachesBuses(all_routes, trips, calendar, route_number, stop,
                                    now, _DEFAULT_AREA_PRIORITY)
                    THEN snapshot ELSE all_buses
    /\ LET r == predicted_arrival(all_stops, all_routes, trips, calendar, all_buses',
                                  route_number, stop, now, _DEFAULT_AREA_PRIORITY)
       IN  ret' = [NoRet EXCEPT !.raised = r.raised, !.none = r.none,
                                !.val = r.val, !.result = r.result,
                                !.closest_trip = r.closest_trip]
    /\ UNCHANGED <<all_stops, calendar, all_routes, trips, sched>>
    /\ UNCHANGED <<cacheVars, ingestVars>>

Next ==
    \/ \E route_number \in RouteNumbers, stop \in QueryStops,
          n \in 0..MaxN, after_hms \in AfterTimes :
            Arrivals(route_number, stop, n, after_hms)
    \/ \E route_number \in RouteNumbers, stop \in QueryStops,
          now \in NowTimes, snapshot \in Snapshots :
            PredictedArrival(route_number, stop, now, snapshot)

Spec == Init /\ [][Next]_vars

\* ------------------------------------------------------------------------
\* Properties
\* ------------------------------------------------------------------------

PredDone == pc = "done" /\ op = "predicted_arrival"
ArrDone == pc = "done" /\ op = "arrivals"

\* The route the query's number stands for
QueryRoute == make_id(all_routes, args.route_number, _DEFAULT_AREA_PRIORITY)

\* The time of day of the query's now, in seconds
NowSecs == args.now % SecondsPerDay

\* The trips of the queried route whose service runs on the schedule's date
ActiveRouteTrips ==
    { trips[i] : i \in { j \in 1..Len(trips) :
                           /\ trips[j].route_id = QueryRoute
                           /\ trips[j].service \in calendar } }

\* Those of them that halt at the stop with the id stop_id
VisitingTrips(stop_id) ==
    { t \in ActiveRouteTrips :
        \E i \in 1..Len(t.sorted_halts) : t.sorted_halts[i][2].stop_id = stop_id }

TripById(id) == CHOOSE t \in { trips[i] : i \in 1..Len(trips) } : t.trip_id = id

NotStarted(t) == Combine(t.start_time) > NowSecs

\* C1: a trip whose start_time is after now is never the closest candidate
\* trip of its direction, and when every trip of the route that visits the
\* queried stop starts after now, predicted_arrival returns None
C1_NotStartedNeverCandidate ==
    PredDone =>
        /\ \A d \in DOMAIN ret.closest_trip : ~ NotStarted(TripById(ret.closest_trip[d]))
        /\ (\A t \in VisitingTrips(args.stop) : NotStarted(t))
              => (ret.none /\ ~ ret.raised /\ DOMAIN ret.closest_trip = {})

\* A candidate was chosen for a direction that also has a trip at the stop
\* which has not started yet
C1_Witness ==
    /\ PredDone
    /\ \E d \in DOMAIN ret.closest_trip :
          \E t \in VisitingTrips(args.stop) :
              /\ t.direction = d
              /\ NotStarted(t)
              /\ t.trip_id # ret.closest_trip[d]

\* The instant e (a rational number of seconds) with its seconds and
\* fraction of a second cut off, as a whole number of seconds
MinuteFloor(e) == (EstSeconds(e) \div 60) * 60

\* The returned time of day hms as an instant of the day the estimate e is on
OnDayOf(e, hms) == (EstSeconds(e) \div SecondsPerDay) * SecondsPerDay + Combine(hms)

\* C2 as stated: no time handed to the caller is before the query's now
C2_ReturnedNotBeforeNow ==
    (PredDone /\ ~ ret.raised /\ ~ ret.none) =>
        \A d \in DOMAIN ret.val :
            \A i \in 1..Len(ret.val[d]) :
                OnDayOf(ret.result[d], ret.val[d][i]) >= args.now

\* C2, amended: the estimate behind each returned time is not before now,
\* the returned time is that estimate cut down to its whole minute, and so
\* it lies less than 60 seconds before now at worst
C2_EstimateNotBeforeNow ==
    (PredDone /\ ~ ret.raised /\ ~ ret.none) =>
        /\ DOMAIN ret.val = DOMAIN ret.result
        /\ \A d \in DOMAIN ret.val :
              /\ ~ EstLess(ret.result[d], <<args.now, 1>>)
              /\ ret.val[d] = << HmsOfInstant(MinuteFloor(ret.result[d])) >>
              /\ MinuteFloor(ret.result[d]) > args.now - 60

\* A returned time that is before now although its estimate is not
C2_Witness ==
    /\ PredDone /\ ~ ret.raised /\ ~ ret.none
    /\ \E d \in DOMAIN ret.val :
          /\ OnDayOf(ret.result[d], ret.val[d][1]) < args.now
          /\ ~ EstLess(ret.result[d], <<args.now, 1>>)

\* The buses Bus.buses_on_route gave the query, and the candidate trips
QueryBuses ==
    LET b == buses_on_route(all_buses, QueryRoute)
    IN  { b[i] : i \in 1..Len(b) }

Candidates == { TripById(ret.closest_trip[d]) : d \in DOMAIN ret.closest_trip }

\* The bus is matched to the trip: its stop pair is a consecutive pair of the
\* trip and the queried stop follows its current stop
Matched(b, t) ==
    /\ has_consecutive_stops(t, b.stop_id, b.next_stop_id)
    /\ following_halt(t, args.stop, b.stop_id) # NoHalts

\* bus.timestamp + (time(h2) - time(h1)) * ratio + (time(h3) - time(h2)),
\* time(h) being the seconds h * 3600 + m * 60 + s of the halt's arrival
ClaimEstimate(b, t) ==
    LET fh == following_halt(t, args.stop, b.stop_id)
        T(i) == Combine(t.sorted_halts[fh[i]][2].arrival_time)
        r == d_ratio(all_stops, b)
    IN  <<(b.timestamp + (T(3) - T(2))) * r[2] + (T(2) - T(1)) * r[1], r[2]>>

\* The direction of a trip in the results: the name of its last stop
DirName(t) == all_stops[t.last_stop].name

\* The estimates for direction k that are not before now
Surviving(k) ==
    { ClaimEstimate(b, t) : <<b, t>> \in
        { x \in QueryBuses \X Candidates :
            /\ Matched(x[1], x[2])
            /\ DirName(x[2]) = k
            /\ ~ EstLess(ClaimEstimate(x[1], x[2]), <<args.now, 1>>) } }

Earliest(S) == CHOOSE e \in S : \A f \in S : ~ EstLess(f, e)

\* The bus of the scenario matched to trip t: timestamp 08:05:00, ratio 0.5,
\* 600 s scheduled from h1 to h2 and 600 s from h2 to h3
ScenarioBus(b, t) ==
    /\ Matched(b, t)
    /\ b.timestamp = Combine(<<8, 5, 0>>)
    /\ d_ratio(all_stops, b) = <<1, 2>>
    /\ LET fh == following_halt(t, args.stop, b.stop_id)
           T(i) == Combine(t.sorted_halts[fh[i]][2].arrival_time)
       IN  T(2) - T(1) = 600 /\ T(3) - T(2) = 600

\* The estimates of the matched buses follow the formula: a direction's
\* result is the earliest of them that is not before now
FormulaHolds ==
    \A b \in QueryBuses : \A t \in Candidates :
        (Matched(b, t) /\ ~ EstLess(ClaimEstimate(b, t), <<args.now, 1>>))
            => /\ DirName(t) \in DOMAIN ret.result
               /\ ret.result[DirName(t)] = Earliest(Surviving(DirName(t)))

\* The scenario's bus, alone in its direction, is predicted to arrive at hms
ScenarioYields(hms) ==
    \A b \in QueryBuses : \A t \in Candidates :
        (ScenarioBus(b, t) /\ Surviving(DirName(t)) = {ClaimEstimate(b, t)})
            => /\ DirName(t) \in DOMAIN ret.val
               /\ ret.val[DirName(t)] = <<hms>>

\* Some bus is matched to a candidate trip through a halt whose arrival hour
\* is 24 or more
MatchedBeyondMidnight ==
    \E b \in QueryBuses : \E t \in Candidates :
        /\ Matched(b, t)
        /\ LET fh == following_halt(t, args.stop, b.stop_id)
           IN  \E i \in 1..3 : t.sorted_halts[fh[i]][2].arrival_time[1] >= 24

ClaimGap(t) ==
    IF NowSecs <= Combine(t.end_time) THEN 0 ELSE NowSecs - Combine(t.end_time)

\* The trips of direction d the candidate is chosen among
Eligible(d) ==
    { t \in VisitingTrips(args.stop) : t.direction = d /\ ~ NotStarted(t) }

\* C4: the candidate of a direction is a trip of today's services that
\* visits the stop and has the smallest non-negative gap (0 when underway,
\* the seconds since end_time when finished), and every estimate comes from
\* a bus matched to a candidate
C4_ClosestCandidate ==
    PredDone =>
        /\ \A i \in 1..Len(trips) :
              (trips[i].direction \in DOMAIN ret.closest_trip)
                  <=> (Eligible(trips[i].direction) # {})
        /\ \A d \in DOMAIN ret.closest_trip :
              LET c == TripById(ret.closest_trip[d])
              IN  /\ c \in Eligible(d)
                  /\ \A t \in Eligible(d) : ClaimGap(c) <= ClaimGap(t)
        /\ \A k \in DOMAIN ret.result :
              \E b \in QueryBuses : \E t \in Candidates :
                  /\ Matched(b, t)
                  /\ DirName(t) = k
                  /\ ret.result[k] = ClaimEstimate(b, t)

\* A finished trip with a larger gap than the candidate of its direction is
\* the only trip that a reported bus matches, and the bus yields nothing
C4_Witness ==
    /\ PredDone /\ ret.none
    /\ \E d \in DOMAIN ret.closest_trip :
          \E t \in Eligible(d) : \E b \in QueryBuses :
              /\ ClaimGap(t) > ClaimGap(TripById(ret.closest_trip[d]))
              /\ Matched(b, t)
              /\ ~ EstLess(ClaimEstimate(b, t), <<args.now, 1>>)
              /\ ~ Matched(b, TripById(ret.closest_trip[d]))

\* The directions that have an estimate which is not before now
SurvivingDirs ==
    { DirName(t) : t \in { c \in Candidates : Surviving(DirName(c)) # {} } }

\* C5: the value returned for a direction is one time, the earliest estimate
\* among the buses matched to that direction cut down to the whole minute
\* (seconds 0, not later than that estimate and less than 60 s before it);
\* a direction without a surviving estimate has no entry
C5_EarliestRoundedDown ==
    (PredDone /\ ~ ret.raised) =>
        /\ ret.none <=> (SurvivingDirs = {})
        /\ DOMAIN ret.val = SurvivingDirs
        /\ \A k \in DOMAIN ret.val :
              LET e == Earliest(Surviving(k))
                  v == ret.val[k][1]
              IN  /\ Len(ret.val[k]) = 1
                  /\ v[3] = 0
                  /\ v = HmsOfInstant(MinuteFloor(e))
                  /\ MinuteFloor(e) * e[2] <= e[1]
                  /\ e[1] < (MinuteFloor(e) + 60) * e[2]

\* Two buses give a direction two different estimates, and the earlier one
\* is not on a whole minute
C5_Witness ==
    /\ PredDone /\ ~ ret.raised /\ ~ ret.none
    /\ \E k \in DOMAIN ret.val :
          /\ Cardinality(Surviving(k)) >= 2
          /\ EstSeconds(Earliest(Surviving(k))) % 60 # 0

\* C6 as stated: predicted_arrival never ends in an exception
C6_NeverRaises == PredDone => ~ ret.raised

\* The name of the queried stop, and the schedule's times for it in direction d
QueryName == all_stops[args.stop].name

SchedTimes(d) ==
    IF /\ QueryRoute \in DOMAIN sched
       /\ d \in DOMAIN sched[QueryRoute]
       /\ QueryName \in DOMAIN sched[QueryRoute][d]
    THEN sched[QueryRoute][d][QueryName]
    ELSE <<>>

NotBefore(hms) == Combine(hms) >= Combine(args.after_hms)

\* C7: arrivals returns, for each direction, only halt times that are not
\* before after_time, and at most n of them
C7_AtMostNNotBefore ==
    ArrDone =>
        \A d \in DOMAIN ret.h :
            /\ Len(ret.h[d]) <= args.n
            /\ \A i \in 1..Len(ret.h[d]) : NotBefore(ret.h[d][i])

\* A direction whose n returned times leave out both an earlier halt and a
\* later one
C7_Witness ==
    /\ ArrDone /\ args.n >= 1
    /\ \E d \in DOMAIN ret.h :
          LET t == SchedTimes(d)
          IN  /\ Len(ret.h[d]) = args.n
              /\ \E i \in 1..Len(t) : ~ NotBefore(t[i])
              /\ Cardinality({ i \in 1..Len(t) : NotBefore(t[i]) }) > args.n

\* C8 as stated: the times returned for a direction are strictly ascending
C8_StrictlyAscending ==
    ArrDone =>
        \A d \in DOMAIN ret.h :
            \A i, j \in 1..Len(ret.h[d]) :
                i < j => Combine(ret.h[d][i]) < Combine(ret.h[d][j])

\* The halt time hms is among the first n of its direction: fewer than n of
\* the direction's times at the stop lie in [after_time, hms)
AmongFirst(d, hms) ==
    LET t == SchedTimes(d)
    IN  Cardinality({ i \in 1..Len(t) :
                        NotBefore(t[i]) /\ Combine(t[i]) < Combine(hms) }) < args.n

Listed(d, hms) ==
    /\ d \in DOMAIN ret.h
    /\ \E i \in 1..Len(ret.h[d]) : ret.h[d][i] = hms

\* The loaded schedule is one trip of route ST.3 that visits exactly these
\* stops at these times, and '3' is asked for at stop_id
OneTripQuery(stop_ids, times, stop_id, after_hms) ==
    /\ Len(trips) = 1
    /\ trips[1].route_id = "ST.3"
    /\ trips[1].service \in calendar
    /\ [i \in 1..Len(trips[1].sorted_halts) |-> trips[1].sorted_halts[i][2].stop_id] = stop_ids
    /\ [i \in 1..Len(trips[1].sorted_halts) |-> trips[1].sorted_halts[i][1]] = times
    /\ args.route_number = "3" /\ args.stop = stop_id
    /\ args.after_hms = after_hms /\ args.n >= 1

\* C9 as stated: one trip through A, B, C at 08:00:00, 08:10:00, 08:20:00
\* gives arrivals('3', C, after (8,0,0)) one direction with [(8,20,0)] and
\* the flag; and every halt of an active trip at the queried stop that is
\* not before after_time and among the first n is listed under the trip's
\* direction
C9_HaltListed ==
    ArrDone =>
        /\ OneTripQuery(<<"A", "B", "C">>, << <<8, 0, 0>>, <<8, 10, 0>>, <<8, 20, 0>> >>,
                        "C", <<8, 0, 0>>)
              => /\ Cardinality(DOMAIN ret.h) = 1
                 /\ \A d \in DOMAIN ret.h : ret.h[d] = << <<8, 20, 0>> >>
                 /\ ret.arrives
        /\ \A t \in ActiveRouteTrips : \A i \in 1..Len(t.sorted_halts) :
              LET hms == t.sorted_halts[i][1]
              IN  (/\ t.sorted_halts[i][2].stop_id = args.stop
                   /\ NotBefore(hms)
                   /\ AmongFirst(DirName(t), hms))
                      => Listed(DirName(t), hms)

\* C9, amended: the trip that goes on from C to D at 08:30:00 gives one
\* direction, D's name, with [(8,20,0)] and the flag; the trip that ends at
\* C gives no direction and the flag; and a halt as above is listed unless
\* the queried stop bears the name of the trip's last stop
C9_HaltListedUnlessTerminus ==
    ArrDone =>
        /\ OneTripQuery(<<"A", "B", "C", "D">>,
                        << <<8, 0, 0>>, <<8, 10, 0>>, <<8, 20, 0>>, <<8, 30, 0>> >>,
                        "C", <<8, 0, 0>>)
              => /\ ret.h = [d \in {all_stops["D"].name} |-> << <<8, 20, 0>> >>]
                 /\ ret.arrives
        /\ OneTripQuery(<<"A", "B", "C">>, << <<8, 0, 0>>, <<8, 10, 0>>, <<8, 20, 0>> >>,
                        "C", <<8, 0, 0>>)
              => /\ DOMAIN ret.h = {}
                 /\ ret.arrives
        /\ \A t \in ActiveRouteTrips : \A i \in 1..Len(t.sorted_halts) :
              LET hms == t.sorted_halts[i][1]
              IN  (/\ t.sorted_halts[i][2].stop_id = args.stop
                   /\ NotBefore(hms)
                   /\ AmongFirst(DirName(t), hms)
                   /\ QueryName # DirName(t))
                      => Listed(DirName(t), hms)
        /\ \A d \in DOMAIN ret.h : d # QueryName

\* The scenario with the trip that goes on to D
C9_Witness ==
    /\ ArrDone
    /\ OneTripQuery(<<"A", "B", "C", "D">>,
                    << <<8, 0, 0>>, <<8, 10, 0>>, <<8, 20, 0>>, <<8, 30, 0>> >>,
                    "C", <<8, 0, 0>>)
    /\ Listed(all_stops["D"].name, <<8, 20, 0>>)

\* Some trip of an active service of the route halts at a stop named name
HaltsAtName(name) ==
    \E t \in ActiveRouteTrips : \E i \in 1..Len(t.sorted_halts) :
        all_stops[t.sorted_halts[i][2].stop_id].name = name

\* C10 as stated: the flag is true exactly when some trip of an active
\* service of the resolved route halts at the queried stop
C10_FlagIffHaltsAtStop ==
    ArrDone => (ret.arrives <=> (VisitingTrips(args.stop) # {}))

\* C10, amended: the flag is true exactly when some trip of an active
\* service of the resolved route halts at a stop that bears the queried
\* stop's name, whatever after_time and n are
C10_FlagIffHaltsAtName ==
    ArrDone => (ret.arrives <=> HaltsAtName(QueryName))

\* No bus remains after after_time, and the flag is true
C10_Witness ==
    /\ ArrDone /\ args.n >= 1
    /\ ret.arrives /\ DOMAIN ret.h = {}
    /\ \E t \in VisitingTrips(args.stop) : DirName(t) # QueryName

\* ------------------------------------------------------------------------
\* The live-fleet cache (class Bus)
\* ------------------------------------------------------------------------

_REFRESH_INTERVAL == 60

Callers == 1..MaxCallers

\* A <bus> element of the feed.  The route attribute is kept as its
\* characters; the time attribute is absent (<<>>) or a string of len
\* characters that int() and datetime() accept (valid) or not, and that
\* stands for the instant dt
BusElement(time, route, stop, next, lat) ==
    [time |-> time, route |-> route, stop |-> stop, next |-> next, lat |-> lat]

TimeAttr(len, valid, dt) == <<[len |-> len, valid |-> valid, dt |-> dt]>>

RECURSIVE Chars(_)
Chars(cs) == IF cs = <<>> THEN "" ELSE Head(cs) \o Chars(Tail(cs))

\* Lines 1063-1070: the route id of the feed to the '<area>.<number>' form
NormalizeRoute(route) ==
    IF Head(route) = "A" THEN [raises |-> FALSE, route_id |-> "AF." \o Chars(Tail(route))]
    ELSE IF Head(route) = "R" THEN [raises |-> FALSE, route_id |-> "RY." \o Chars(Tail(route))]
    ELSE IF Head(route) \in {"1", "2", "3", "4", "5", "6", "7", "8", "9"}
         THEN [raises |-> FALSE, route_id |-> "ST." \o Chars(route)]
         ELSE [raises |-> TRUE, route_id |-> ""]

\* One pass of the loop of Bus._load_state (lines 1043-1084) over the
\* element e: the element is skipped, an exception is raised, or a Bus is
\* made, which adds itself to Bus._all_buses
LoadElement(e) ==
    IF e.time = <<>> \/ e.time[1].len < 12 THEN [kind |-> "skip"]
    ELSE IF ~ e.time[1].valid THEN [kind |-> "raise", exc |-> "ValueError"]
    ELSE IF e.route = <<>> THEN [kind |-> "skip"]
    ELSE IF NormalizeRoute(e.route).raises THEN [kind |-> "raise", exc |-> "AssertionError"]
    ELSE IF e.stop = "" \/ e.next = "" THEN [kind |-> "skip"]
    ELSE IF ~ (-90 <= e.lat /\ e.lat <= 90) THEN [kind |-> "raise", exc |-> "AssertionError"]
    ELSE [kind |-> "bus",
          bus |-> [route_id |-> NormalizeRoute(e.route).route_id,
                   stop_id |-> e.stop, next_stop_id |-> e.next,
                   location |-> e.lat, timestamp |-> e.time[1].dt]]

\* The feeds the network source or the status file can hold
Feeds ==
    { << BusElement(TimeAttr(12, TRUE, 100), <<"3">>, "A", "B", 64),
         BusElement(TimeAttr(12, TRUE, 100), <<"3">>, "", "B", 64),
         BusElement(TimeAttr(12, TRUE, 100), <<"A", "1">>, "C", "D", 64) >>,
      << BusElement(<<>>, <<"3">>, "A", "B", 64),
         BusElement(TimeAttr(12, TRUE, 200), <<"R", "2">>, "B", "C", 64) >>,
      << BusElement(TimeAttr(12, TRUE, 300), <<"3">>, "C", "D", 64),
         BusElement(TimeAttr(12, FALSE, 0), <<"3">>, "A", "B", 64),
         BusElement(TimeAttr(12, TRUE, 300), <<"3">>, "B", "C", 64) >> }

\* The feed status.xml holds when it is there
FileFeeds ==
    { << BusElement(TimeAttr(12, TRUE, 400), <<"3">>, "D", "C", 64) >> }

\* What requests.get can meet: an answer with status 200 and a well-formed
\* body, an answer with another status, an answer whose body is not XML, a
\* connection error, or no answer at all
NetAnswers == {"ok", "status", "malformed", "error", "never"}

\* status.xml: absent, not XML, or a feed
StatusFiles ==
    { [state |-> "missing", body |-> <<>>], [state |-> "malformed", body |-> <<>>] }
    \cup { [state |-> "ok", body |-> f] : f \in FileFeeds }

Idle ==
    [pc |-> "idle", op |-> "none", net |-> "none", root |-> <<>>, ix |-> 0,
     before |-> <<>>, path |-> "none", exc |-> "none", fetched |-> FALSE,
     read_file |-> FALSE, view |-> <<>>]

CacheInit ==
    /\ all_stops = StopTable /\ calendar = {} /\ all_routes = <<>> /\ trips = <<>>
    /\ sched = EmptyMap /\ pc = "idle" /\ op = "none" /\ args = NoArgs /\ ret = NoRet
    /\ rows_left = {} /\ rows_all = {} /\ new_trip = BusTrip("", "", "", "")
    /\ load_pc = "none" /\ probe = <<>> /\ stop_keys = <<>> /\ all_stops_by_name = EmptyMap
    /\ all_buses = <<>>
    /\ info_timestamp = <<>>
    /\ lock = 0
    /\ caller = [t \in Callers |-> Idle]
    /\ calls = 0
    /\ clock = 0 /\ ticks = 0
    /\ status_file \in StatusFiles
    /\ last_fetch = <<>>

\* The caller t is at position p of its call
At(t, p) == caller[t].pc = p

\* The test with half the interval
StateIsFresh_half_interval(timestamp, now) ==
    /\ timestamp # <<>>
    /\ 2 * (now - timestamp[1]) < _REFRESH_INTERVAL

\* The test of lines 1091-1093 at the instant now
StateIsFresh(timestamp, now) ==
    /\ timestamp # <<>>
    /\ now - timestamp[1] < _REFRESH_INTERVAL

\* An exception that leaves the lock held
Raise_keeps_lock(t, exc) ==
    /\ UNCHANGED lock
    /\ caller' = [caller EXCEPT ![t].pc = "idle", ![t].path = "raised", ![t].exc = exc,
                                ![t].net = "none", ![t].root = <<>>, ![t].ix = 0,
                                ![t].before = <<>>]

\* The with-block is left by an exception: the lock is released and the
\* exception reaches the caller of all_buses / buses_on_route
Raise(t, exc) ==
    /\ lock' = 0
    /\ caller' = [caller EXCEPT ![t].pc = "idle", ![t].path = "raised", ![t].exc = exc,
                                ![t].net = "none", ![t].root = <<>>, ![t].ix = 0,
                                ![t].before = <<>>]

\* Bus.all_buses() or Bus.buses_on_route(route_id) is called
Call(t, o) ==
    /\ At(t, "idle")
    /\ calls < MaxCalls
    /\ calls' = calls + 1
    /\ caller' = [caller EXCEPT ![t] = [Idle EXCEPT !.pc = "refresh", !.op = o]]
    /\ UNCHANGED <<all_buses, info_timestamp, lock, clock, ticks, status_file, last_fetch>>
    /\ UNCHANGED <<scheduleVars, ingestVars>>

\* Bus.refresh_state: the lock is taken and the age of the state is tested;
\* a fresh state ends the with-block at once
RefreshState(t) ==
    /\ At(t, "refresh")
    /\ lock = 0
    /\ IF StateIsFresh(info_timestamp, clock)
       THEN /\ caller' = [caller EXCEPT ![t].pc = "return", ![t].path = "fresh"]
            /\ UNCHANGED lock
       ELSE /\ caller' = [caller EXCEPT ![t].pc = "load", ![t].before = all_buses]
            /\ lock' = t
    /\ UNCHANGED <<all_buses, info_timestamp, calls, clock, ticks, status_file, last_fetch>>
    /\ UNCHANGED <<scheduleVars, ingestVars>>

\* Bus._load_state without line 1034: the new buses join the old ones
LoadState_keeps_state(t, net) ==
    /\ At(t, "load")
    /\ all_buses' = all_buses
    /\ last_fetch' = <<clock>>
    /\ caller' = [caller EXCEPT ![t].pc = "fetch", ![t].net = net, ![t].fetched = TRUE]
    /\ UNCHANGED <<info_timestamp, lock, calls, clock, ticks, status_file>>
    /\ UNCHANGED <<scheduleVars, ingestVars>>

\* Bus._load_state, lines 1034-1036: the state is cleared and requests.get
\* is called; what the network will do is net
LoadState(t, net) ==
    /\ At(t, "load")
    /\ all_buses' = <<>>
    /\ last_fetch' = <<clock>>
    /\ caller' = [caller EXCEPT ![t].pc = "fetch", ![t].net = net, ![t].fetched = TRUE]
    /\ UNCHANGED <<info_timestamp, lock, calls, clock, ticks, status_file>>
    /\ UNCHANGED <<scheduleVars, ingestVars>>

\* Bus._fetch_state: requests.get returns or raises (it has no timeout, so
\* it does neither while the network stays silent)
FetchState(t, body) ==
    /\ At(t, "fetch")
    /\ caller[t].net # "never"
    /\ CASE caller[t].net = "ok" ->
              /\ caller' = [caller EXCEPT ![t].pc = "parse", ![t].root = body, ![t].ix = 1]
              /\ UNCHANGED lock
         [] caller[t].net = "status" ->
              /\ caller' = [caller EXCEPT ![t].pc = "read"]
              /\ UNCHANGED lock
         [] caller[t].net = "malformed" -> Raise(t, "ParseError")
         [] caller[t].net = "error" -> Raise(t, "ConnectionError")
    /\ UNCHANGED <<all_buses, info_timestamp, calls, clock, ticks, status_file, last_fetch>>
    /\ UNCHANGED <<scheduleVars, ingestVars>>

\* Bus._read_state and lines 1040-1042
ReadState(t) ==
    /\ At(t, "read")
    /\ CASE status_file.state = "ok" ->
              /\ caller' = [caller EXCEPT ![t].pc = "parse", ![t].root = status_file.body,
                                          ![t].ix = 1, ![t].read_file = TRUE]
              /\ UNCHANGED lock
         [] status_file.state = "missing" ->
              /\ caller' = [caller EXCEPT ![t].pc = "return", ![t].path = "failed",
                                          ![t].read_file = TRUE]
              /\ lock' = 0
         [] status_file.state = "malformed" ->
              /\ lock' = 0
              /\ caller' = [caller EXCEPT ![t].pc = "idle", ![t].path = "raised",
                                          ![t].exc = "ParseError", ![t].read_file = TRUE,
                                          ![t].net = "none", ![t].before = <<>>]
    /\ UNCHANGED <<all_buses, info_timestamp, calls, clock, ticks, status_file, last_fetch>>
    /\ UNCHANGED <<scheduleVars, ingestVars>>

\* One pass of the loop over root.findall("bus")
LoadBus(t) ==
    /\ At(t, "parse")
    /\ caller[t].ix <= Len(caller[t].root)
    /\ LET r == LoadElement(caller[t].root[caller[t].ix])
       IN  CASE r.kind = "skip" ->
                  /\ caller' = [caller EXCEPT ![t].ix = @ + 1]
                  /\ UNCHANGED <<all_buses, lock>>
             [] r.kind = "bus" ->
                  /\ all_buses' = Append(all_buses, r.bus)
                  /\ caller' = [caller EXCEPT ![t].ix = @ + 1]
                  /\ UNCHANGED lock
             [] r.kind = "raise" ->
                  /\ Raise(t, r.exc)
                  /\ UNCHANGED all_buses
    /\ UNCHANGED <<info_timestamp, calls, clock, ticks, status_file, last_fetch>>
    /\ UNCHANGED <<scheduleVars, ingestVars>>

\* Line 1085 and the end of the with-block
LoadDone(t) ==
    /\ At(t, "parse")
    /\ caller[t].ix > Len(caller[t].root)
    /\ info_timestamp' = <<clock>>
    /\ lock' = 0
    /\ caller' = [caller EXCEPT ![t].pc = "return", ![t].path = "loaded"]
    /\ UNCHANGED <<all_buses, calls, clock, ticks, status_file, last_fetch>>
    /\ UNCHANGED <<scheduleVars, ingestVars>>

\* Lines 1003 and 1009: Bus._all_buses is read and handed to the caller
Return(t) ==
    /\ At(t, "return")
    /\ caller' = [caller EXCEPT
                    ![t].pc = "idle", ![t].net = "none", ![t].root = <<>>, ![t].ix = 0,
                    ![t].before = <<>>,
                    ![t].view = IF caller[t].op = "all_buses" THEN all_buses
                                ELSE buses_on_route(all_buses, "ST.3")]
    /\ UNCHANGED <<all_buses, info_timestamp, lock, calls, clock, ticks, status_file,
                   last_fetch>>
    /\ UNCHANGED <<scheduleVars, ingestVars>>

\* Time passes
Tick(d) ==
    /\ ticks < MaxTicks
    /\ ticks' = ticks + 1
    /\ clock' = clock + d
    /\ UNCHANGED <<all_buses, info_timestamp, lock, caller, calls, status_file, last_fetch>>
    /\ UNCHANGED <<scheduleVars, ingestVars>>

CacheNext ==
    \/ \E t \in Callers, o \in {"all_buses", "buses_on_route"} : Call(t, o)
    \/ \E t \in Callers : RefreshState(t)
    \/ \E t \in Callers, net \in NetAnswers : LoadState(t, net)
    \/ \E t \in Callers, body \in Feeds : FetchState(t, body)
    \/ \E t \in Callers : ReadState(t)
    \/ \E t \in Callers : LoadBus(t)
    \/ \E t \in Callers : LoadDone(t)
    \/ \E t \in Callers : Return(t)
    \/ \E d \in {_REFRESH_INTERVAL \div 2} : Tick(d)

CacheSpec == CacheInit /\ [][CacheNext]_vars

\* Every step of a caller is taken in the end; the network owes no answer
CacheFairness ==
    \A t \in Callers :
        /\ WF_<<all_buses, caller, lock, info_timestamp>>(RefreshState(t))
        /\ WF_<<all_buses, caller, lock, info_timestamp>>(\E net \in NetAnswers : LoadState(t, net))
        /\ WF_<<all_buses, caller, lock, info_timestamp>>(\E body \in Feeds : FetchState(t, body))
        /\ WF_<<all_buses, caller, lock, info_timestamp>>(ReadState(t))
        /\ WF_<<all_buses, caller, lock, info_timestamp>>(LoadBus(t))
        /\ WF_<<all_buses, caller, lock, info_timestamp>>(LoadDone(t))
        /\ WF_<<all_buses, caller, lock, info_timestamp>>(Return(t))

CacheLiveSpec == CacheInit /\ [][CacheNext]_vars /\ CacheFairness

\* ------------------------------------------------------------------------
\* Properties of the live-fleet cache
\* ------------------------------------------------------------------------

\* The caller t takes the step from position p to position q
Moves(t, p, q) == caller[t].pc = p /\ caller'[t].pc = q

\* C11 as stated: a due refresh whose network fetch and file read both fail
\* returns without error and leaves the bus map as it was before the call
C11_FailedRefreshKeepsCache ==
    [][\A t \in Callers :
          (Moves(t, "read", "return") /\ caller'[t].path = "failed")
              => /\ caller'[t].exc = "none"
                 /\ all_buses' = caller[t].before]_vars

\* C12 as stated: no caller reads the bus map while another caller's
\* refresh is in progress, so no view is a cleared or partly rebuilt map
C12_NoViewOfRefreshInProgress ==
    [][\A t \in Callers : Moves(t, "return", "idle") => lock = 0]_vars

\* C13 as stated: a network fetch is never started less than 60 s after the
\* start of the one before
C13_OneFetchPerInterval ==
    [][\A t \in Callers :
          (Moves(t, "load", "fetch") /\ last_fetch # <<>>)
              => clock - last_fetch[1] >= 60]_vars

\* C14: a refresh made while the last successful refresh is younger than
\* 60 s starts no network fetch and no file read and leaves the bus map and
\* the last-refresh timestamp unchanged
C14_FreshRefreshIsNoOp ==
    [][\A t \in Callers :
          (/\ caller[t].pc = "refresh" /\ caller'[t].pc # "refresh"
           /\ info_timestamp # <<>>
           /\ clock - info_timestamp[1] < 60)
              => /\ caller'[t].pc = "return"
                 /\ ~ caller'[t].fetched /\ ~ caller'[t].read_file
                 /\ last_fetch' = last_fetch
                 /\ all_buses' = all_buses
                 /\ info_timestamp' = info_timestamp
                 /\ lock' = lock]_vars

\* A refresh was skipped half an interval after the last successful one
C14_Witness ==
    \E t \in Callers :
        /\ At(t, "return") /\ caller[t].path = "fresh"
        /\ ~ caller[t].fetched /\ ~ caller[t].read_file
        /\ info_timestamp # <<>> /\ clock > info_timestamp[1]
        /\ all_buses # <<>>

\* The vehicle record e is well formed: it has a time of 12 characters or
\* more that parses, a route with a known prefix, a stop and a next stop
WellFormed(e) ==
    /\ e.time # <<>> /\ e.time[1].len >= 12 /\ e.time[1].valid
    /\ e.route # <<>> /\ Head(e.route) \in {"A", "R", "1", "2", "3", "4", "5", "6", "7", "8", "9"}
    /\ e.stop # "" /\ e.next # ""

\* The normalized route id of a well-formed record
NormalizedId(route) ==
    CASE Head(route) = "A" -> "AF." \o Chars(Tail(route))
      [] Head(route) = "R" -> "RY." \o Chars(Tail(route))
      [] OTHER -> "ST." \o Chars(route)

\* The buses of the well-formed records of root, in the feed's order
BusesOf(root) ==
    LET wf == SelectSeq(root, WellFormed)
    IN  [i \in 1..Len(wf) |->
            [route_id |-> NormalizedId(wf[i].route), stop_id |-> wf[i].stop,
             next_stop_id |-> wf[i].next, location |-> wf[i].lat,
             timestamp |-> wf[i].time[1].dt]]

\* C15: when a refresh succeeds, the bus map holds exactly the well-formed
\* records of the snapshot just obtained, each under its normalized route
\* id, and no bus of an earlier snapshot
C15_MapIsNewSnapshot ==
    [][\A t \in Callers :
          (Moves(t, "parse", "return") /\ caller'[t].path = "loaded")
              => /\ all_buses' = BusesOf(caller[t].root)
                 /\ \A r \in {"ST.3", "AF.1", "RY.2"} :
                       buses_on_route(all_buses', r) = buses_on_route(BusesOf(caller[t].root), r)
                 /\ info_timestamp' = <<clock>>]_vars

\* A refresh has replaced the buses of an earlier snapshot by those of a
\* snapshot with a record that was skipped
C15_Witness ==
    \E t \in Callers :
        /\ At(t, "return") /\ caller[t].path = "loaded"
        /\ caller[t].before # <<>>
        /\ all_buses # <<>>
        /\ Len(all_buses) < Len(caller[t].root)
        /\ \A i \in 1..Len(caller[t].before), j \in 1..Len(all_buses) :
              caller[t].before[i] # all_buses[j]

\* C16 as stated: no vehicle record makes the refresh fail: the loop over
\* the records never ends in an exception
C16_MalformedRecordSkipped ==
    \A t \in Callers : caller[t].exc \notin {"ValueError", "AssertionError"}

\* C17 as stated: when the network fetch fails the refresh goes on to read
\* the status file and no error reaches the caller, and the file is read
\* only after a failed fetch
C17_FetchFailureFallsToFile ==
    [][\A t \in Callers :
          /\ (/\ caller[t].pc = "fetch" /\ caller'[t].pc # "fetch"
              /\ caller[t].net \in {"status", "malformed", "error"})
                => /\ caller'[t].pc = "read"
                   /\ caller'[t].exc = "none"
          /\ (~ caller[t].read_file /\ caller'[t].read_file)
                => /\ caller[t].fetched
                   /\ caller[t].net \in {"status", "malformed", "error"}]_vars

\* C18 as stated: every call of all_buses or buses_on_route returns in the
\* end
C18_EveryCallReturns ==
    \A t \in Callers : (caller[t].pc = "refresh") ~> (caller[t].pc = "idle")

\* ------------------------------------------------------------------------
\* Ingestion of one trip's halts, in any order of the rows
\* ------------------------------------------------------------------------

\* The rows of stop_times.txt for a trip of k halts: stop sequences 1..k,
\* any stops (Z is not in stops.txt), any arrival times
HaltRows(k) ==
    { { [trip_id |-> "t", stop_id |-> st[i], stop_seq |-> i, arrival_time |-> tm[i]] :
          i \in 1..k } :
        st \in [1..k -> {"A", "B", "Z"}],
        tm \in [1..k -> { <<8, 0, 0>>, <<8, 10, 0>> }] }

\* The number of rows read so far
NumRead == Cardinality(rows_all) - Cardinality(rows_left)

\* What a caller can ask of a trip
TripUses ==
    {"sorted_halts", "has_consecutive_stops", "following_halt",
     "first_stop", "last_stop", "start_time", "end_time"}

\* The use o of the trip ends in an AssertionError (lines 363, 408, 414,
\* 420, 426); has_consecutive_stops and following_halt assert nothing
UseRaises(t, o) ==
    CASE o = "sorted_halts" -> ~ t.initialized
      [] o = "first_stop" -> t.first_stop = None
      [] o = "last_stop" -> t.last_stop = None
      [] o = "start_time" -> t.start_time = NoTime
      [] o = "end_time" -> t.end_time = NoTime
      [] OTHER -> FALSE

\* What the use o of the trip returns
UseValue(t, o) ==
    CASE o = "sorted_halts" -> <<"halts", Len(t.sorted_halts)>>
      [] o = "has_consecutive_stops" -> <<"bool", has_consecutive_stops(t, "A", "B")>>
      [] o = "following_halt" -> <<"halts", following_halt(t, "B", "A")>>
      [] o = "first_stop" -> <<"stop", t.first_stop>>
      [] o = "last_stop" -> <<"stop", t.last_stop>>
      [] o = "start_time" -> <<"hms", t.start_time>>
      [] o = "end_time" -> <<"hms", t.end_time>>

\* trips.txt has been read (the trip and its route exist), stop_times.txt
\* is about to be
IngestInit ==
    /\ all_stops = StopTable /\ calendar = {} /\ all_routes = <<"ST.3">> /\ trips = <<>>
    /\ sched = EmptyMap /\ pc = "idle" /\ op = "none" /\ args = NoArgs /\ ret = NoRet
    /\ all_buses = <<>>
    /\ info_timestamp = <<>> /\ lock = 0 /\ caller = <<>> /\ calls = 0
    /\ clock = 0 /\ ticks = 0 /\ status_file = <<>> /\ last_fetch = <<>>
    /\ \E k \in 0..MaxHalts : rows_all \in HaltRows(k)
    /\ rows_left = rows_all
    /\ new_trip = BusTrip("t", "ST.3", "s1", "0")
    /\ load_pc = "loading"
    /\ probe = <<>>
    /\ stop_keys = <<>> /\ all_stops_by_name = EmptyMap

\* BusHalt.__init__ for one more row of the file: BusTrip.add_halt, then
\* BusStop.add_halt, whose assert ends the reading of the file when the
\* stop is not known
AddHalt(row) ==
    /\ load_pc = "loading"
    /\ row \in rows_left
    /\ rows_left' = rows_left \ {row}
    /\ new_trip' = add_halt(all_stops, new_trip, row)
    /\ load_pc' = IF BusStop_lookup(all_stops, row.stop_id) = None
                  THEN "aborted" ELSE "loading"
    /\ UNCHANGED <<rows_all, probe, stop_keys, all_stops_by_name>>
    /\ UNCHANGED <<scheduleVars, all_buses, cacheVars>>

\* BusTrip.initialize, once every row has been read
Initialize ==
    /\ load_pc = "loading"
    /\ rows_left = {}
    /\ new_trip' = BusTrip_initialize(new_trip)
    /\ load_pc' = "trips_initialized"
    /\ UNCHANGED <<rows_left, rows_all, probe, stop_keys, all_stops_by_name>>
    /\ UNCHANGED <<scheduleVars, all_buses, cacheVars>>

\* BusService.initialize: the trips of the service are sorted by
\* trip.start_time, which asserts that the start time is set
ServiceInitialize ==
    /\ load_pc = "trips_initialized"
    /\ load_pc' = IF UseRaises(new_trip, "start_time")
                  THEN "finalize_raised" ELSE "finalized"
    /\ UNCHANGED <<rows_left, rows_all, new_trip, probe, stop_keys, all_stops_by_name>>
    /\ UNCHANGED <<scheduleVars, all_buses, cacheVars>>

\* A caller uses the trip, at whatever stage the loading is
Use(o) ==
    /\ probe = <<>>
    /\ load_pc \in {"loading", "finalized"}
    /\ probe' = <<[use |-> o, at |-> load_pc, read |-> NumRead,
                   raised |-> UseRaises(new_trip, o),
                   value |-> IF UseRaises(new_trip, o) THEN <<>> ELSE UseValue(new_trip, o)]>>
    /\ UNCHANGED <<rows_left, rows_all, new_trip, load_pc, stop_keys, all_stops_by_name>>
    /\ UNCHANGED <<scheduleVars, all_buses, cacheVars>>

IngestNext ==
    \/ \E row \in rows_all : AddHalt(row)
    \/ Initialize
    \/ ServiceInitialize
    \/ \E o \in TripUses : Use(o)

IngestSpec == IngestInit /\ [][IngestNext]_vars

\* ------------------------------------------------------------------------
\* Properties of the ingestion
\* ------------------------------------------------------------------------

\* The row of the file with stop sequence i
RowOfSeq(i) == CHOOSE r \in rows_all : r.stop_seq = i

NumRows == Cardinality(rows_all)

\* C19: after _initialize the sorted halt list is the halts in ascending
\* stop sequence and the consecutive-stop set is the pairs of stops adjacent
\* in that order, whatever the order of ingestion and the arrival times
C19_HaltsBySequence ==
    new_trip.initialized =>
        /\ new_trip.sorted_halts =
              [i \in 1..NumRows |-> <<RowOfSeq(i).arrival_time, RowOfSeq(i)>>]
        /\ new_trip.consecutive_stops =
              { <<RowOfSeq(i).stop_id, RowOfSeq(i + 1).stop_id>> : i \in 1..(NumRows - 1) }

\* A trip whose halts were ingested in another order than their sequence,
\* with an arrival time that goes down along the sequence
C19_Witness ==
    /\ new_trip.initialized
    /\ NumRows >= 3
    /\ FlattenHalts(new_trip.halts) # new_trip.sorted_halts
    /\ \E i \in 1..(NumRows - 1) :
          HmsLess(RowOfSeq(i + 1).arrival_time, RowOfSeq(i).arrival_time)

\* The least and the greatest arrival time of the rows
MinArrival ==
    CHOOSE a \in { r.arrival_time : r \in rows_all } :
        \A r \in rows_all : HmsLeq(a, r.arrival_time)

MaxArrival ==
    CHOOSE a \in { r.arrival_time : r \in rows_all } :
        \A r \in rows_all : HmsLeq(r.arrival_time, a)

\* C20 as stated: once the halts of a trip are ingested, first_stop is the
\* stop of the halt of sequence 1, last_stop the stop of the halt of the
\* greatest sequence, start_time the least arrival time and end_time the
\* greatest departure time
C20_DerivedFields ==
    (rows_left = {} /\ rows_all # {} /\ load_pc # "aborted") =>
        /\ new_trip.first_stop = RowOfSeq(1).stop_id
        /\ new_trip.last_stop = RowOfSeq(NumRows).stop_id
        /\ new_trip.start_time = MinArrival
        /\ new_trip.end_time = MaxArrival

\* C21 as stated: the finalize step completes for every loaded record set,
\* and after it first_stop, last_stop, start_time, end_time and sorted_halts
\* of the trip are set and every use of the trip returns a value
C21_NothingUninitialized ==
    /\ load_pc # "finalize_raised"
    /\ load_pc = "finalized" =>
          \A o \in {"sorted_halts", "first_stop", "last_stop", "start_time", "end_time"} :
              ~ UseRaises(new_trip, o)
    /\ (probe # <<>> /\ probe[1].at = "finalized") => ~ probe[1].raised

\* C22 as stated: every use of the trip's derived data made before
\* _initialize has run ends in an assertion error
C22_UseBeforeFinalizeFails ==
    (probe # <<>> /\ probe[1].at = "loading") => probe[1].raised

\* C24 as stated: every halt in the trip's halt index is at a stop of the
\* stop table, and the trip's route is a known route
C24_HaltsAtKnownStops ==
    /\ \A i \in 1..Len(new_trip.halts) : \A j \in 1..Len(new_trip.halts[i][2]) :
          new_trip.halts[i][2][j].stop_id \in DOMAIN all_stops
    /\ \E i \in 1..Len(all_routes) : all_routes[i] = new_trip.route_id

\* The positions of a call inside the with-block, past the freshness test
InLoad(t) == caller[t].pc \in {"load", "fetch", "read", "parse"}

\* C30: at most one caller is inside _load_state, the lock is held exactly
\* by that caller, and a call that has ended (fresh, loaded, failed or
\* raised) or has not yet entered holds no lock
C30_LockHeldOnlyWhileLoading ==
    /\ \A t, u \in Callers : (InLoad(t) /\ InLoad(u)) => t = u
    /\ \A t \in Callers : InLoad(t) <=> lock = t
    /\ lock # 0 => lock \in Callers

\* A call has ended with an exception and another caller is inside
\* _load_state with the lock
C30_Witness ==
    \E t, u \in Callers :
        /\ t # u
        /\ At(t, "idle") /\ caller[t].path = "raised"
        /\ InLoad(u) /\ lock = u

\* C28: when a bus passes the adjacency check and the halt scan of a
\* candidate trip, the three halts used are, in ascending order, the halt at
\* the bus's current stop, the halt at the bus's next stop and the first
\* later halt at the queried stop
C28_HaltsFollowTheBus ==
    PredDone =>
        \A b \in QueryBuses : \A t \in Candidates :
            Matched(b, t) =>
                LET fh == following_halt(t, args.stop, b.stop_id)
                    halts == t.sorted_halts
                IN  /\ <<b.stop_id, b.next_stop_id>> \in t.consecutive_stops
                    /\ fh[1] < fh[2] /\ fh[2] <= fh[3]
                    /\ halts[fh[1]][2].stop_id = b.stop_id
                    /\ halts[fh[2]][2].stop_id = b.next_stop_id
                    /\ halts[fh[3]][2].stop_id = args.stop
                    /\ \A i \in (fh[1] + 1)..(fh[3] - 1) : halts[i][2].stop_id # args.stop

\* ------------------------------------------------------------------------
\* Lookups on the loaded tables: service activity, route numbers, and the
\* progress ratio of a bus
\* ------------------------------------------------------------------------

\* The service code of a row of trips.txt: a string that starts with
\* "vmh_" (prefixed) or does not, followed by rest; valid_from and weekday
\* tell whether the date and the weekday flags it encodes cover the date
\* asked for
ServiceCode(prefixed, rest, valid_from, weekday) ==
    [prefixed |-> prefixed, rest |-> rest, valid_from |-> valid_from, weekday |-> weekday]

\* The code as it is written in the file
RawCode(code) == IF code.prefixed THEN "vmh_" \o code.rest ELSE code.rest

\* BusService.__init__ that keeps the code as it is written
service_key_unstripped(code) == RawCode(code)

\* BusService.__init__, lines 490-495: self._service
service_key(code) == code.rest

ServiceCodes ==
    { ServiceCode(p, r, v, w) :
        p \in BOOLEAN, r \in {"s1", "s2"}, v \in BOOLEAN, w \in BOOLEAN }

\* calendar_dates.txt: the codes listed for the date
Calendars == SUBSET {"s1", "vmh_s1", "vmh_s2"}

\* trips.txt: the routes, in the order they are made
RouteTables ==
    { <<>>, <<"ST.3">>, <<"SU.3">>, <<"AF.3", "ST.3">>, <<"ST.3", "SU.3", "AF.3">>,
      <<"SU.3", "AF.3">>, <<"ST.5", "AF.3">>, <<"AF.5", "SU.5", "ST.3">> }

AreaPriorities ==
    { _DEFAULT_AREA_PRIORITY, <<"AF", "SU", "ST">>, <<"SU">>, <<>> }

\* The buses whose progress is asked for: at a known or unknown stop, on a
\* line with the stops
RatioBuses ==
    { BusRow("ST.3", st, nx, loc, <<8, 0, 0>>) :
        st \in {"A", "C", "Z"}, nx \in {"B", "C2", "Z"},
        loc \in {0, 250, 500, 1000, 1500, 2000, 4000} }

LookupInit ==
    /\ all_stops = StopTable
    /\ calendar \in Calendars
    /\ all_routes \in RouteTables
    /\ trips = <<>> /\ sched = EmptyMap
    /\ pc = "idle" /\ op = "none" /\ args = <<>> /\ ret = <<>>
    /\ all_buses = <<>>
    /\ info_timestamp = <<>> /\ lock = 0 /\ caller = <<>> /\ calls = 0
    /\ clock = 0 /\ ticks = 0 /\ status_file = <<>> /\ last_fetch = <<>>
    /\ rows_left = {} /\ rows_all = {} /\ new_trip = BusTrip("", "", "", "")
    /\ load_pc = "none" /\ probe = <<>> /\ stop_keys = <<>> /\ all_stops_by_name = EmptyMap

\* BusService(route_id + "/" + code).is_active_on_date(on_date), calendar
\* being BusCalendar.lookup(on_date)
IsActiveOnDate(code) ==
    /\ pc = "idle"
    /\ pc' = "done"
    /\ op' = "is_active_on_date"
    /\ args' = <<code>>
    /\ ret' = <<is_active_on_date(service_key(code), calendar)>>
    /\ UNCHANGED <<all_stops, calendar, all_routes, trips, sched, all_buses, cacheVars, ingestVars>>

\* BusRoute.lookup_number(route_number, area_priority=area_priority)
LookupNumber(route_number, area_priority) ==
    /\ pc = "idle"
    /\ pc' = "done"
    /\ op' = "lookup_number"
    /\ args' = <<route_number, area_priority>>
    /\ ret' = <<lookup_number(all_routes, route_number, area_priority)>>
    /\ UNCHANGED <<all_stops, calendar, all_routes, trips, sched, all_buses, cacheVars, ingestVars>>

\* Lines 1360-1384 of predicted_arrival for one bus
DRatio(bus) ==
    /\ pc = "idle"
    /\ pc' = "done"
    /\ op' = "d_ratio"
    /\ args' = <<bus>>
    /\ ret' = <<d_ratio(all_stops, bus)>>
    /\ UNCHANGED <<all_stops, calendar, all_routes, trips, sched, all_buses, cacheVars, ingestVars>>

LookupNext ==
    \/ \E code \in ServiceCodes : IsActiveOnDate(code)
    \/ \E route_number \in {"3", "5", "9"}, area_priority \in AreaPriorities :
          LookupNumber(route_number, area_priority)
    \/ \E bus \in RatioBuses : DRatio(bus)

LookupSpec == LookupInit /\ [][LookupNext]_vars

\* ------------------------------------------------------------------------
\* Properties of the lookups
\* ------------------------------------------------------------------------

Looked(o) == pc = "done" /\ op = o

\* C23 as stated: is_active_on_date is true exactly when the service code,
\* as it is written in the trip record, is in the calendar's set for the date
C23_ActiveIffRawCodeListed ==
    Looked("is_active_on_date") => (ret[1] <=> RawCode(args[1]) \in calendar)

\* C23, amended: is_active_on_date is true exactly when the service code of
\* the trip record, with a leading "vmh_" taken off, is in the calendar's
\* set for the date, whatever the start date and weekday flags it encodes
C23_ActiveIffStrippedCodeListed ==
    Looked("is_active_on_date") =>
        LET code == args[1]
            key == IF code.prefixed THEN code.rest ELSE RawCode(code)
        IN  ret[1] <=> key \in calendar

\* A prefixed service is active though neither its start date nor its
\* weekday flags cover the date
C23_Witness ==
    /\ Looked("is_active_on_date")
    /\ args[1].prefixed /\ ~ args[1].valid_from /\ ~ args[1].weekday
    /\ ret[1]
    /\ RawCode(args[1]) \notin calendar

\* The route of area i of the priority list with the number asked for
RouteOfArea(i) == args[2][i] \o "." \o args[1]

KnownRoute(id) == \E k \in 1..Len(all_routes) : all_routes[k] = id

\* C27: lookup_number returns the route of the first area of area_priority
\* that has the number, and no route when no listed area has it
C27_FirstAreaWithNumber ==
    Looked("lookup_number") =>
        LET hits == { i \in 1..Len(args[2]) : KnownRoute(RouteOfArea(i)) }
        IN  IF hits = {} THEN ret[1] = None
            ELSE \E i \in hits : /\ \A j \in hits : i <= j
                                 /\ ret[1] = RouteOfArea(i)

\* Two listed areas have the number and the earlier one is returned, though
\* the later one was made first
C27_Witness ==
    /\ Looked("lookup_number")
    /\ \E i, j \in 1..Len(args[2]) :
          /\ i < j /\ KnownRoute(RouteOfArea(i)) /\ KnownRoute(RouteOfArea(j))
          /\ ret[1] = RouteOfArea(i)
          /\ all_routes[1] = RouteOfArea(j)

\* The two stops of the bus are known and a metre or more apart
StopsApart(bus) ==
    /\ bus.stop_id \in DOMAIN all_stops /\ bus.next_stop_id \in DOMAIN all_stops
    /\ distance(all_stops[bus.stop_id].location, all_stops[bus.next_stop_id].location) >= 1

\* C29: the progress ratio lies in [0, 1]; it is min(d_bus / d_stops, 1)
\* when the bus's two stops are known and a metre or more apart, and 0
\* otherwise
C29_RatioClamped ==
    Looked("d_ratio") =>
        LET bus == args[1]
            r == ret[1]
        IN  /\ r[2] > 0 /\ 0 <= r[1] /\ r[1] <= r[2]
            /\ IF StopsApart(bus)
               THEN LET d_stops == distance(all_stops[bus.stop_id].location,
                                            all_stops[bus.next_stop_id].location)
                        d_bus == distance(bus.location, all_stops[bus.next_stop_id].location)
                    IN  r[1] * d_stops = r[2] * (IF d_bus < d_stops THEN d_bus ELSE d_stops)
               ELSE r[1] = 0

\* A bus between two stops at the same place, away from them: ratio 0
C29_Witness ==
    /\ Looked("d_ratio")
    /\ args[1].stop_id = "C" /\ args[1].next_stop_id = "C2"
    /\ args[1].location # all_stops["C2"].location
    /\ ret[1] = <<0, 1>>

\* ------------------------------------------------------------------------
\* BusStop: the stop tables and the search for the closest stops
\* ------------------------------------------------------------------------

\* Locations are (lat, lon) in whole degrees.  The stops and the places
\* asked about lie on the meridians 0 and 180, which make one great circle
\* through the poles; Angle is the place of a location on that circle
Angle(location) ==
    IF location[2] = 0 THEN (location[1] + 360) % 360
    ELSE (180 - location[1]) % 360

\* distance (Haversine) between two locations of that circle, in degrees of
\* arc (111.19 km each)
distance_lat_lon(loc1, loc2) ==
    LET d == (Angle(loc1) - Angle(loc2) + 360) % 360
    IN  IF d <= 180 THEN d ELSE 360 - d

\* The asserts of lines 716-717 without the one on lon
ValidLocation_lat_only(location) ==
    -90 <= location[1] /\ location[1] <= 90

\* The asserts of lines 716-717
ValidLocation(location) ==
    /\ -90 <= location[1] /\ location[1] <= 90
    /\ -180 <= location[2] /\ location[2] <= 180

Lats == {-91, 0, 90}
Lons == {-181, 0, 180}
StopIds == {"1", "2", "3"}
StopNames == {"Hlemmur", "Mjodd"}

\* The places asked about
Places == { <<lat, lon>> : lat \in {-90, 0, 90}, lon \in {0, 180} }

\* within_radius: <<>> for None, <<r>> for r degrees of arc
Radii == { <<>>, <<0>>, <<30>>, <<90>> }

\* The first index of dist with the least distance
FirstLeast(dist) ==
    CHOOSE i \in 1..Len(dist) :
        /\ \A j \in 1..Len(dist) : dist[i][1] <= dist[j][1]
        /\ \A j \in 1..(i - 1) : dist[j][1] > dist[i][1]

\* sorted(dist, key=lambda t: t[0]): stable, on increasing distance
RECURSIVE sorted_by_distance(_)
sorted_by_distance(dist) ==
    IF dist = <<>> THEN <<>>
    ELSE LET i == FirstLeast(dist)
         IN  <<dist[i]>> \o sorted_by_distance(SubSeq(dist, 1, i - 1)
                                               \o SubSeq(dist, i + 1, Len(dist)))

\* closest_to_list without the sort of line 755
closest_to_list_unsorted(stops, keys, location, n, within_radius) ==
    IF n < 1 THEN <<>>
    ELSE LET all == [i \in 1..Len(keys) |->
                        <<distance_lat_lon(location, stops[keys[i]].location), keys[i]>>]
             dist == IF within_radius # <<>>
                     THEN SelectSeq(all, LAMBDA t : t[1] <= within_radius[1])
                     ELSE all
             first == SubSeq(dist, 1, IF n < Len(dist) THEN n ELSE Len(dist))
         IN  [i \in 1..Len(first) |-> first[i][2]]

\* BusStop.closest_to_list: the ids of the stops returned; keys are the
\* keys of BusStop._all_stops in insertion order
closest_to_list(stops, keys, location, n, within_radius) ==
    IF n < 1 THEN <<>>
    ELSE LET all == [i \in 1..Len(keys) |->
                        <<distance_lat_lon(location, stops[keys[i]].location), keys[i]>>]
             dist == IF within_radius # <<>>
                     THEN SelectSeq(all, LAMBDA t : t[1] <= within_radius[1])
                     ELSE all
             srt == sorted_by_distance(dist)
             first == SubSeq(srt, 1, IF n < Len(srt) THEN n ELSE Len(srt))
         IN  [i \in 1..Len(first) |-> first[i][2]]

StopInit ==
    /\ all_stops = EmptyMap /\ stop_keys = <<>> /\ all_stops_by_name = EmptyMap
    /\ calendar = {} /\ all_routes = <<>> /\ trips = <<>> /\ sched = EmptyMap
    /\ pc = "idle" /\ op = "none" /\ args = <<>> /\ ret = <<>>
    /\ all_buses = <<>>
    /\ info_timestamp = <<>> /\ lock = 0 /\ caller = <<>> /\ calls = 0
    /\ clock = 0 /\ ticks = 0 /\ status_file = <<>> /\ last_fetch = <<>>
    /\ rows_left = {} /\ rows_all = {} /\ new_trip = BusTrip("", "", "", "")
    /\ load_pc = "none" /\ probe = <<>>

\* BusStop(stop_id, name, location): a failing assert comes before the
\* stop is put into either table
NewStop(stop_id, name, location) ==
    /\ pc = "idle"
    /\ op' = "BusStop"
    /\ args' = <<stop_id, name, location>>
    /\ ret' = <<>>
    /\ IF ValidLocation(location) /\ stop_id \notin DOMAIN all_stops
       THEN /\ pc' = "idle"
            /\ all_stops' = [k \in DOMAIN all_stops \cup {stop_id} |->
                               IF k = stop_id THEN [name |-> name, location |-> location]
                               ELSE all_stops[k]]
            /\ stop_keys' = Append(stop_keys, stop_id)
            /\ all_stops_by_name' =
                  [k \in DOMAIN all_stops_by_name \cup {name} |->
                      IF k = name
                      THEN (IF name \in DOMAIN all_stops_by_name
                            THEN Append(all_stops_by_name[name], stop_id)
                            ELSE <<stop_id>>)
                      ELSE all_stops_by_name[k]]
       ELSE /\ pc' = "raised"
            /\ UNCHANGED <<all_stops, stop_keys, all_stops_by_name>>
    /\ UNCHANGED <<calendar, all_routes, trips, sched, all_buses, cacheVars>>
    /\ UNCHANGED <<rows_left, rows_all, new_trip, load_pc, probe>>

\* BusStop.closest_to_list(location, n, within_radius)
ClosestToList(location, n, within_radius) ==
    /\ pc = "idle"
    /\ pc' = "done"
    /\ op' = "closest_to_list"
    /\ args' = <<location, n, within_radius>>
    /\ ret' = closest_to_list(all_stops, stop_keys, location, n, within_radius)
    /\ UNCHANGED <<all_stops, calendar, all_routes, trips, sched, all_buses, cacheVars,
                   ingestVars>>

StopNext ==
    \/ \E stop_id \in StopIds, name \in StopNames, lat \in Lats, lon \in Lons :
          NewStop(stop_id, name, <<lat, lon>>)
    \/ \E location \in Places, n \in 0..MaxN, within_radius \in Radii :
          ClosestToList(location, n, within_radius)

StopSpec == StopInit /\ [][StopNext]_vars

\* ------------------------------------------------------------------------
\* Properties of the stop tables
\* ------------------------------------------------------------------------

InRange(location) ==
    /\ -90 <= location[1] /\ location[1] <= 90
    /\ -180 <= location[2] /\ location[2] <= 180

\* C25: every stop of the tables has its lat in [-90, 90] and its lon in
\* [-180, 180], and a construction with a coordinate out of range fails and
\* leaves the table by id and the table by name as they were
C25_StopsInRange ==
    /\ [](\A k \in DOMAIN all_stops : InRange(all_stops[k].location))
    /\ [][(op' = "BusStop" /\ ~ InRange(args'[3])) =>
             /\ pc' = "raised"
             /\ UNCHANGED <<all_stops, stop_keys, all_stops_by_name>>]_vars

\* A construction with a lon out of range has failed, with stops in the
\* tables
C25_Witness ==
    /\ pc = "raised" /\ op = "BusStop"
    /\ args[3][2] < -180 /\ args[3][1] = 0
    /\ stop_keys # <<>>

\* C26: closest_to_list returns at most n stops, in non-decreasing distance
\* from the location, all within the radius when one is given, and each of
\* them is also returned for the same location and n without the radius
C26_ClosestStops ==
    (pc = "done" /\ op = "closest_to_list") =>
        LET location == args[1]
            n == args[2]
            within_radius == args[3]
            d(i) == distance_lat_lon(location, all_stops[ret[i]].location)
            unbounded == closest_to_list(all_stops, stop_keys, location, n, <<>>)
        IN  /\ Len(ret) <= (IF n < 0 THEN 0 ELSE n)
            /\ \A i \in 1..Len(ret) : ret[i] \in DOMAIN all_stops
            /\ \A i, j \in 1..Len(ret) : i < j => d(i) <= d(j)
            /\ within_radius # <<>> => \A i \in 1..Len(ret) : d(i) <= within_radius[1]
            /\ \A i \in 1..Len(ret) : \E j \in 1..Len(unbounded) : unbounded[j] = ret[i]

\* A search with a radius leaves out a stop of the tables, returns two
\* stops, and the stop put first into the tables is not the closest
C26_Witness ==
    /\ pc = "done" /\ op = "closest_to_list"
    /\ args[3] # <<>> /\ Len(ret) = 2 /\ Len(stop_keys) = 3
    /\ ret[1] # stop_keys[1]
    /\ distance_lat_lon(args[1], all_stops[ret[1]].location)
         < distance_lat_lon(args[1], all_stops[ret[2]].location)

====
